---- MODULE Spec2Model ----
(***************************************************************************)
(* Model of the feature queue (builder/src/features.py, class FeatureList) *)
(* and of the Ralph validation loop (builder/src/ralph.py, class           *)
(* RalphLoopController).                                                   *)
(*                                                                         *)
(* The persisted documents are the state: `features` is the content of     *)
(* feature_list.json (an ordered list of records), `state` the content of  *)
(* .ralph-loop-state.json.  Python list positions are 0-based; a position  *)
(* p of the code is element p+1 of the TLA+ sequence.  `ret` is the value  *)
(* returned by the last call, `lookup` the feature_id and feature locals   *)
(* of that call when it was a RalphLoopController call; for a FeatureList  *)
(* call with a feature_id argument, that argument and the record           *)
(* get_by_id resolves it to when the call is made.  `file` tells what      *)
(* feature_list.json is: a JSON list (then `features` is its content), no  *)
(* file, a text json.load rejects, or bytes that are no text.  `procs`     *)
(* holds the calls two other processes have under way on the same project  *)
(* directory.  `tracker`, `progress_file`, `profile` and `history` belong   *)
(* to the knowledge files of the project (builder/phase3/src): the          *)
(* ProgressTracker object at work, claude-progress.txt, the learnings of    *)
(* project_profile.json and the learnings calls made so far.                *)
(***************************************************************************)
EXTENDS Integers, Sequences, FiniteSets, TLC

VARIABLES features, file, state, ret, lookup, session, calls, procs,
          tracker, progress_file, profile, history

vars == <<features, file, state, ret, lookup, session, calls, procs,
          tracker, progress_file, profile, history>>

\* the variables no FeatureList or RalphLoopController call of the one
\* process reads or writes
elsewhere == <<procs, tracker, progress_file, profile, history>>

----------------------------------------------------------------------------
(* Bounds *)

\* longest feature list explored
MaxLen == 3
\* RalphConfig.max_iterations of the controller instance (configurable)
MaxIterations == 2
\* direct increment_attempt calls stop being issued at this attempt_count
MaxAttempt == 3
\* number of calls in a run of the validation loop: a start, as many
\* answers as the cap allows, and one more
MaxCalls == MaxIterations + 2
\* number of calls in a run of queue operations on an arbitrary store
MaxQueueCalls == 1
\* longest list whose statistics are computed
MaxTotal == 16
\* number of calls made on the progress trackers of a project
MaxProgressCalls == 4
\* number of learnings calls made on a project
MaxLearningCalls == 4

----------------------------------------------------------------------------
(* Small helpers *)

Min(S) == CHOOSE x \in S : \A y \in S : x <= y

Max0(a, b) == IF a >= b THEN a ELSE b

\* explicit ids of the initial lists (the tool layer hands out ids >= 1)
ExplicitIds == {1, 2}

\* ids callers pass: positions, explicit ids, and ids that resolve to nothing
CallIds == (-1)..MaxLen

----------------------------------------------------------------------------
(* Feature records.  An optional JSON field is a has_ flag plus a value     *)
(* (the value is 0 while the field is absent); in_progress and last_error   *)
(* use the string "absent" for a missing field.  passes is read everywhere  *)
(* through f.get("passes", False) / f.get("passes"), so a missing passes    *)
(* field and passes = false are the same value here.                        *)

\* simple format record: { "category", "description", "steps", "passes" }
SimpleFeature(p) ==
    [has_id |-> FALSE, id |-> 0, has_priority |-> FALSE, priority |-> 0,
     passes |-> p, in_progress |-> "absent",
     has_attempt_count |-> FALSE, attempt_count |-> 0, last_error |-> "absent"]

\* enhanced format record, as create_bulk writes it
EnhancedFeature(i, pr, p) ==
    [has_id |-> TRUE, id |-> i, has_priority |-> TRUE, priority |-> pr,
     passes |-> p, in_progress |-> "false",
     has_attempt_count |-> TRUE, attempt_count |-> 0, last_error |-> "absent"]

Positions(fs) == 0..(Len(fs) - 1)

\* the value None returned by a lookup
NotFound == [found |-> FALSE, index |-> -1, feature |-> SimpleFeature(FALSE)]

\* result = f.copy(); result["_index"] = p; if "id" not in result: result["id"] = synth
Found(fs, p, synth) ==
    [found |-> TRUE, index |-> p,
     feature |-> IF fs[p + 1].has_id THEN fs[p + 1]
                 ELSE [fs[p + 1] EXCEPT !.has_id = TRUE, !.id = synth]]

get_feature_id(feature, index) == IF feature.has_id THEN feature.id ELSE index

\* returns the first record whether it passes or not
get_next_FirstRecord(fs) ==
    IF fs = <<>> THEN NotFound ELSE Found(fs, 0, 0)

get_next(fs) ==
    LET pending == {p \in Positions(fs) : ~fs[p + 1].passes}
    IN  IF pending = {} THEN NotFound ELSE Found(fs, Min(pending), Min(pending))

\* the position checked against the length only, so that a negative
\* feature_id indexes the list from its end
get_by_id_NoLowerBound(fs, feature_id) ==
    LET explicit == {p \in Positions(fs) : fs[p + 1].has_id /\ fs[p + 1].id = feature_id}
        p == IF feature_id < 0 THEN Len(fs) + feature_id ELSE feature_id
    IN  IF explicit # {} THEN Found(fs, Min(explicit), feature_id)
        ELSE IF 0 <= p /\ p < Len(fs)
             THEN Found(fs, p, feature_id)
             ELSE NotFound

\* the array position tried before the explicit ids
get_by_id_PositionFirst(fs, feature_id) ==
    LET explicit == {p \in Positions(fs) : fs[p + 1].has_id /\ fs[p + 1].id = feature_id}
    IN  IF 0 <= feature_id /\ feature_id < Len(fs)
        THEN Found(fs, feature_id, feature_id)
        ELSE IF explicit # {} THEN Found(fs, Min(explicit), feature_id)
             ELSE NotFound

get_by_id(fs, feature_id) ==
    LET explicit == {p \in Positions(fs) : fs[p + 1].has_id /\ fs[p + 1].id = feature_id}
    IN  IF explicit # {} THEN Found(fs, Min(explicit), feature_id)
        ELSE IF 0 <= feature_id /\ feature_id < Len(fs)
             THEN Found(fs, feature_id, feature_id)
             ELSE NotFound

\* Each mutating method returns the list it saved (the unchanged list when it
\* returns before _save) and whether it returned a record or None.

\* in_progress written whether or not the record had the field
mark_passing_AlwaysClears(fs, feature_id) ==
    LET explicit == {p \in Positions(fs) : fs[p + 1].has_id /\ fs[p + 1].id = feature_id}
        hit == explicit # {} \/ (0 <= feature_id /\ feature_id < Len(fs))
        i == IF explicit # {} THEN Min(explicit) + 1 ELSE feature_id + 1
    IN  IF ~hit THEN [features |-> fs, found |-> FALSE]
        ELSE [features |-> [fs EXCEPT ![i].passes = TRUE, ![i].in_progress = "false"],
              found |-> TRUE]

\* mark_passing without the `if "in_progress" in f: f["in_progress"] = False`
mark_passing_KeepsInProgress(fs, feature_id) ==
    LET explicit == {p \in Positions(fs) : fs[p + 1].has_id /\ fs[p + 1].id = feature_id}
        hit == explicit # {} \/ (0 <= feature_id /\ feature_id < Len(fs))
        i == IF explicit # {} THEN Min(explicit) + 1 ELSE feature_id + 1
    IN  IF ~hit THEN [features |-> fs, found |-> FALSE]
        ELSE [features |-> [fs EXCEPT ![i].passes = TRUE], found |-> TRUE]

mark_passing(fs, feature_id) ==
    LET explicit == {p \in Positions(fs) : fs[p + 1].has_id /\ fs[p + 1].id = feature_id}
        hit == explicit # {} \/ (0 <= feature_id /\ feature_id < Len(fs))
        i == IF explicit # {} THEN Min(explicit) + 1 ELSE feature_id + 1
    IN  IF ~hit THEN [features |-> fs, found |-> FALSE]
        ELSE [features |-> [fs EXCEPT ![i].passes = TRUE,
                                      ![i].in_progress =
                                          IF @ = "absent" THEN "absent" ELSE "false"],
              found |-> TRUE]

\* the check of the passes flag left out
mark_in_progress_NoPassesCheck(fs, feature_id) ==
    LET explicit == {p \in Positions(fs) : fs[p + 1].has_id /\ fs[p + 1].id = feature_id}
        hit == explicit # {} \/ (0 <= feature_id /\ feature_id < Len(fs))
        i == IF explicit # {} THEN Min(explicit) + 1 ELSE feature_id + 1
    IN  IF ~hit THEN [features |-> fs, found |-> FALSE]
        ELSE [features |-> [fs EXCEPT ![i].in_progress = "true"], found |-> TRUE]

\* the explicit ids not looked at
mark_in_progress_PositionOnly(fs, feature_id) ==
    LET hit == 0 <= feature_id /\ feature_id < Len(fs)
        i == feature_id + 1
    IN  IF ~hit THEN [features |-> fs, found |-> FALSE]
        ELSE IF fs[i].passes THEN [features |-> fs, found |-> FALSE]
        ELSE [features |-> [fs EXCEPT ![i].in_progress = "true"], found |-> TRUE]

mark_in_progress(fs, feature_id) ==
    LET explicit == {p \in Positions(fs) : fs[p + 1].has_id /\ fs[p + 1].id = feature_id}
        hit == explicit # {} \/ (0 <= feature_id /\ feature_id < Len(fs))
        i == IF explicit # {} THEN Min(explicit) + 1 ELSE feature_id + 1
    IN  IF ~hit THEN [features |-> fs, found |-> FALSE]
        ELSE IF fs[i].passes THEN [features |-> fs, found |-> FALSE]
        ELSE [features |-> [fs EXCEPT ![i].in_progress = "true"], found |-> TRUE]

\* the field written only where the record already has it
clear_in_progress_OnlyIfPresent(fs, feature_id) ==
    LET explicit == {p \in Positions(fs) : fs[p + 1].has_id /\ fs[p + 1].id = feature_id}
        hit == explicit # {} \/ (0 <= feature_id /\ feature_id < Len(fs))
        i == IF explicit # {} THEN Min(explicit) + 1 ELSE feature_id + 1
    IN  IF ~hit THEN [features |-> fs, found |-> FALSE]
        ELSE [features |-> [fs EXCEPT ![i].in_progress =
                                          IF @ = "absent" THEN "absent" ELSE "false"],
              found |-> TRUE]

clear_in_progress(fs, feature_id) ==
    LET explicit == {p \in Positions(fs) : fs[p + 1].has_id /\ fs[p + 1].id = feature_id}
        hit == explicit # {} \/ (0 <= feature_id /\ feature_id < Len(fs))
        i == IF explicit # {} THEN Min(explicit) + 1 ELSE feature_id + 1
    IN  IF ~hit THEN [features |-> fs, found |-> FALSE]
        ELSE [features |-> [fs EXCEPT ![i].in_progress = "false"], found |-> TRUE]

\* the popped record not appended again
MoveToEnd_NoAppend(fs, i) ==
    [k \in 1..(Len(fs) - 1) |-> IF k < i THEN fs[k] ELSE fs[k + 1]]

\* features.pop(target_index); feature["in_progress"] = False; features.append(feature)
MoveToEnd(fs, i) ==
    [k \in 1..Len(fs) |->
        IF k < i THEN fs[k]
        ELSE IF k < Len(fs) THEN fs[k + 1]
        ELSE [fs[i] EXCEPT !.in_progress = "false"]]

\* skip without the two `if f.get("passes"): return None` tests
skip_MovesPassing(fs, feature_id) ==
    LET match == {p \in Positions(fs) :
                     \/ fs[p + 1].has_id /\ fs[p + 1].id = feature_id
                     \/ ~fs[p + 1].has_id /\ p = feature_id}
        inrange == 0 <= feature_id /\ feature_id < Len(fs)
    IN  IF match # {}
        THEN [features |-> MoveToEnd(fs, Min(match) + 1), found |-> TRUE]
        ELSE IF inrange
             THEN [features |-> MoveToEnd(fs, feature_id + 1), found |-> TRUE]
             ELSE [features |-> fs, found |-> FALSE]

\* the position skip and increment_attempt settle on: the first record whose
\* id field is feature_id or that has no id field and stands at position
\* feature_id, else the position feature_id itself; -1 when there is none
target_index(fs, feature_id) ==
    LET match == {p \in Positions(fs) :
                     \/ fs[p + 1].has_id /\ fs[p + 1].id = feature_id
                     \/ ~fs[p + 1].has_id /\ p = feature_id}
    IN  IF match # {} THEN Min(match)
        ELSE IF 0 <= feature_id /\ feature_id < Len(fs) THEN feature_id
        ELSE 0 - 1

skip(fs, feature_id) ==
    LET match == {p \in Positions(fs) :
                     \/ fs[p + 1].has_id /\ fs[p + 1].id = feature_id
                     \/ ~fs[p + 1].has_id /\ p = feature_id}
        inrange == 0 <= feature_id /\ feature_id < Len(fs)
    IN  IF match # {}
        THEN IF fs[Min(match) + 1].passes
             THEN [features |-> fs, found |-> FALSE]
             ELSE [features |-> MoveToEnd(fs, Min(match) + 1), found |-> TRUE]
        ELSE IF inrange
             THEN IF fs[feature_id + 1].passes
                  THEN [features |-> fs, found |-> FALSE]
                  ELSE [features |-> MoveToEnd(fs, feature_id + 1), found |-> TRUE]
             ELSE [features |-> fs, found |-> FALSE]

\* the error argument: "None" is the default, "" the empty string; both are
\* falsy in `if error:`
Errors == {"None", "", "E1"}

increment_attempt(fs, feature_id, error) ==
    LET match == {p \in Positions(fs) :
                     \/ fs[p + 1].has_id /\ fs[p + 1].id = feature_id
                     \/ ~fs[p + 1].has_id /\ p = feature_id}
        hit == match # {} \/ (0 <= feature_id /\ feature_id < Len(fs))
        i == IF match # {} THEN Min(match) + 1 ELSE feature_id + 1
    IN  IF ~hit THEN [features |-> fs, found |-> FALSE]
        ELSE [features |-> [fs EXCEPT ![i].has_attempt_count = TRUE,
                                      ![i].attempt_count = @ + 1,
                                      ![i].last_error =
                                          IF error \in {"None", ""} THEN @ ELSE error],
              found |-> TRUE]

SetMax(S) == CHOOSE x \in S : \A y \in S : y <= x

\* max((f.get(field, 0) for f in features), default=0)
max_priority(fs) ==
    IF fs = <<>> THEN 0
    ELSE SetMax({IF fs[k].has_priority THEN fs[k].priority ELSE 0 : k \in 1..Len(fs)})

max_id(fs) ==
    IF fs = <<>> THEN 0
    ELSE SetMax({IF fs[k].has_id THEN fs[k].id ELSE 0 : k \in 1..Len(fs)})

\* ids counted up from the length of the list instead of from the largest id
create_bulk_IdsFromLength(fs, n) ==
    [features |-> fs \o [i \in 1..n |->
                            EnhancedFeature(Len(fs) + i, max_priority(fs) + i, FALSE)],
     count |-> n]

\* n = len(feature_list); the items' own fields other than category, name,
\* description and steps are ignored by the code
create_bulk(fs, n) ==
    [features |-> fs \o [i \in 1..n |->
                            EnhancedFeature(max_id(fs) + i, max_priority(fs) + i, FALSE)],
     count |-> n]

\* the digits after the first decimal dropped
round1_Truncated(passing, total) == (1000 * passing) \div total

\* round(x, 1) for x = 100 * passing / total, in tenths of a percent: the
\* nearest tenth, the even one of the two when x lies halfway (the float x
\* is exact in these cases for lists of fewer than 80 records)
round1(passing, total) ==
    LET q == (1000 * passing) \div total
        r == (1000 * passing) % total
    IN  IF 2 * r > total \/ (2 * r = total /\ q % 2 = 1) THEN q + 1 ELSE q

\* percentage is kept in tenths of a percent: 333 stands for 33.3
get_stats(fs) ==
    LET total == Len(fs)
        passing == Cardinality({k \in 1..Len(fs) : fs[k].passes})
        in_progress == Cardinality({k \in 1..Len(fs) : fs[k].in_progress = "true"})
    IN  [passing |-> passing,
         in_progress |-> in_progress,
         total |-> total,
         percentage |-> IF total > 0 THEN round1(passing, total) ELSE 0]

\* the limit ignored
get_for_regression_AllPassing(fs, limit) ==
    LET passing == {p \in Positions(fs) : fs[p + 1].passes}
    IN  {sq \in UNION {[1..k -> passing] : k \in 0..Len(fs)} :
            /\ Len(sq) = Cardinality(passing)
            /\ \A i, j \in 1..Len(sq) : i # j => sq[i] # sq[j]}

\* random.sample(passing, min(limit, len(passing))): every selection of that
\* many records of the list `passing`, in every order; a record is named by
\* its position in the store
get_for_regression(fs, limit) ==
    LET passing == {p \in Positions(fs) : fs[p + 1].passes}
        size == IF limit <= Cardinality(passing) THEN limit ELSE Cardinality(passing)
    IN  IF passing = {} THEN {<<>>}
        ELSE {sq \in UNION {[1..k -> passing] : k \in 0..Len(fs)} :
                 /\ Len(sq) = size
                 /\ \A i, j \in 1..Len(sq) : i # j => sq[i] # sq[j]}

\* limit: Field(default=3, ge=1, le=10) of the tool layer
Limits == 1..10

is_complete(fs) ==
    IF fs = <<>> THEN FALSE ELSE \A k \in 1..Len(fs) : fs[k].passes

----------------------------------------------------------------------------
(* Agent output.  A text is a sequence of lexical pieces: the two tags, a   *)
(* newline, the fixed parts of the promise tokens, decimal digits, the      *)
(* minus sign and other text.  Matching works on the pieces as the regular  *)
(* expression and the `in` operator work on the characters.                 *)

OPEN == "<promise>"
CLOSE == "</promise>"
NL == "\n"

DigitChars == <<"0", "1", "2", "3", "4", "5", "6", "7", "8", "9">>

RECURSIVE Digits(_)
\* str(n) inside the f-string
Digits(n) ==
    IF n < 0 THEN <<"-">> \o Digits(0 - n)
    ELSE IF n < 10 THEN <<DigitChars[n + 1]>>
    ELSE Digits(n \div 10) \o <<DigitChars[(n % 10) + 1]>>

\* f"FEATURE_{feature_id}_VALIDATED" and f"FEATURE_{feature_id}_BLOCKED"
ValidatedToken(feature_id) == <<"FEATURE_">> \o Digits(feature_id) \o <<"_VALIDATED">>
BlockedToken(feature_id) == <<"FEATURE_">> \o Digits(feature_id) \o <<"_BLOCKED">>

\* pattern in text
Contains(text, pattern) ==
    \E k \in 1..(Len(text) - Len(pattern) + 1) :
        SubSeq(text, k, k + Len(pattern) - 1) = pattern

\* the first closing tag that ends a group of at least one piece, none of
\* them a newline, opened at position i; 0 when there is none
LazyClose(output, i) ==
    LET ends == {j \in (i + 2)..Len(output) :
                    /\ output[j] = CLOSE
                    /\ \A k \in (i + 1)..(j - 1) : output[k] # NL}
    IN  IF ends = {} THEN 0 ELSE Min(ends)

\* re.search(r"<promise>(.+?)</promise>", output): leftmost match, lazy group
detect_promise(output) ==
    LET starts == {i \in 1..Len(output) : output[i] = OPEN /\ LazyClose(output, i) # 0}
    IN  IF starts = {} THEN [found |-> FALSE, promise |-> <<>>]
        ELSE [found |-> TRUE,
              promise |-> SubSeq(output, Min(starts) + 1, LazyClose(output, Min(starts)) - 1)]

\* the cap compared with > instead of >=
process_result_CapOffByOne(feature, output) ==
    LET promise == detect_promise(output)
        validated == promise.found /\ Contains(promise.promise, ValidatedToken(feature.id))
        blocked == promise.found /\ ~validated
                   /\ Contains(promise.promise, BlockedToken(feature.id))
    IN  [validated |-> validated,
         blocked |-> blocked,
         should_continue |-> ~validated /\ ~blocked
                             /\ ~(feature.attempt_count > MaxIterations),
         promise |-> promise]

\* feature is the dict get_by_id returned (it always carries an id)
process_result(feature, output) ==
    LET promise == detect_promise(output)
        validated == promise.found /\ Contains(promise.promise, ValidatedToken(feature.id))
        blocked == promise.found /\ ~validated
                   /\ Contains(promise.promise, BlockedToken(feature.id))
    IN  [validated |-> validated,
         blocked |-> blocked,
         should_continue |-> ~validated /\ ~blocked
                             /\ ~(feature.attempt_count >= MaxIterations),
         promise |-> promise]

NoPrompt == [some |-> FALSE, feature_id |-> 0, attempt |-> 0,
             max_iterations |-> 0, last_error |-> "None"]

\* the variable parts of the rendered template
create_validation_prompt(feature) ==
    [some |-> TRUE,
     feature_id |-> feature.id,
     attempt |-> feature.attempt_count + 1,
     max_iterations |-> MaxIterations,
     last_error |-> IF feature.last_error = "absent" THEN "None" ELSE feature.last_error]

Marker(token) == <<OPEN>> \o token \o <<CLOSE>>

\* texts the agent may answer with: every shape of answer for the ids in
\* `ids`, a plain marker for the ids in `others`
OutputsFor(ids, others) ==
    {<<"text">>, Marker(<<"DONE">>)}
    \cup {Marker(ValidatedToken(y)) : y \in ids \cup others}
    \cup {Marker(BlockedToken(y)) : y \in ids \cup others}
    \cup {<<"text">> \o Marker(<<"text">> \o ValidatedToken(y) \o <<"text">>) : y \in ids}
    \cup {Marker(<<"DONE">>) \o Marker(ValidatedToken(y)) : y \in ids}
    \cup {Marker(<<"DONE">>) \o Marker(BlockedToken(y)) : y \in ids}
    \cup {Marker(BlockedToken(y)) \o Marker(ValidatedToken(y)) : y \in ids}
    \cup {Marker(ValidatedToken(y)) \o Marker(BlockedToken(y)) : y \in ids}
    \cup {Marker(BlockedToken(y) \o ValidatedToken(y)) : y \in ids}
    \cup {<<OPEN>> \o ValidatedToken(y) : y \in ids}
    \cup {<<OPEN, NL>> \o ValidatedToken(y) \o <<CLOSE>> \o Marker(BlockedToken(y)) : y \in ids}
    \cup {<<OPEN, CLOSE>> \o ValidatedToken(y) \o <<CLOSE>> : y \in ids}

----------------------------------------------------------------------------
(* Loop state document {current_feature, iteration}.  current_feature is    *)
(* None or an integer.                                                      *)

None == [is_none |-> TRUE, value |-> 0]
Some(v) == [is_none |-> FALSE, value |-> v]

\* a test that lets None through: `if feature_id == 0`
Falsy_ZeroOnly(x) == ~x.is_none /\ x.value = 0

\* Python truth value of `not x` for x an int or None
Falsy(x) == x.is_none \/ x.value = 0

\* {"current_feature": None, "iteration": 0}
ClearedState == [current_feature |-> None, iteration |-> 0]

NoStats == [passing |-> 0, in_progress |-> 0, total |-> 0, percentage |-> 0]

\* the value returned by the last call
Ret(op) == [op |-> op, found |-> FALSE, index |-> -1, feature |-> SimpleFeature(FALSE),
            done |-> FALSE, prompt |-> NoPrompt, count |-> 0, raised |-> FALSE,
            stats |-> NoStats, complete |-> FALSE, sample |-> <<>>, limit |-> 0]

\* no RalphLoopController call made yet
NoLookup == [feature_id |-> None, found |-> FALSE, index |-> -1,
             feature |-> SimpleFeature(FALSE)]

\* locals after `feature = self.feature_list.get_by_id(feature_id)`
Lookup(feature_id, r) ==
    [feature_id |-> feature_id, found |-> r.found, index |-> r.index, feature |-> r.feature]

\* bookkeeping of the running session: attempt_count of the feature when
\* start_validation was called, number of continue_validation calls that
\* returned done=false since, and whether only continue_validation ran since
NoSession == [a |-> 0, streak |-> 0, pure |-> FALSE]

MaxStreak == MaxIterations + 2

------------------------------------------------------------\* a call of another process: the method has not been entered ("idle"), has
\* run `features = self._load()` ("loaded"), or has returned ("done");
\* feature_id is its argument, features its local variable, found whether it
\* returned a record
IdleProc == [pc |-> "idle", feature_id |-> 0, features |-> <<>>, found |-> FALSE]

\* no other process is at work; overlap tells whether at some moment both
\* processes had loaded and not yet returned
NoProcs == [p1 |-> IdleProc, p2 |-> IdleProc, overlap |-> FALSE]

----------------------------------------------------------------------------
(* claude-progress.txt (builder/phase3/src/progress.py, class               *)
(* ProgressTracker).  The file is a text: a sequence of atoms, an atom      *)
(* being one character (a space, a newline, a hyphen, a letter, a digit) or *)
(* a word the code writes whole.  No atom occurs inside another or across   *)
(* the border of two others, so split, strip, startswith and replace on the *)
(* atoms are those of the code on the characters.  A session is a record    *)
(* {number, started_at, features, issues}; _current_session is the position *)
(* in _sessions (1-based) of the dict it aliases, 0 for None.  Notes and    *)
(* resolutions are only tested for truth and written: None and "" are both  *)
(* the empty text.                                                          *)

SP == " "
HYPHEN == "-"
TITLE == "# Project Progress"
PATTERNS_HEADER == "## Codebase Patterns (Persistent)"
PATTERNS_HINT == "<!-- Move reusable discoveries here - these survive across features -->"
SESSIONS_HEADER == "## Session History (Append-Only)"
SESSION == "### Session "
DASH == " - "
BULLET == <<HYPHEN, SP>>
IMPLEMENTED == <<HYPHEN, SP, "Implemented:", SP>>
ISSUE == <<HYPHEN, SP, "Issue:", SP>>
NOTES == <<SP, SP, HYPHEN, SP, "Notes:", SP>>
RESOLUTION == <<SP, SP, HYPHEN, SP, "Resolution:", SP>>

\* datetime.utcnow().isoformat() + "Z": the ten characters of the date, then
\* the time of day
utcnow == <<"2026-11-03", "T06:10:02Z">>

\* text[:10] of a text that starts with a date or is empty
date_part(text) == IF text = <<>> THEN <<>> ELSE <<text[1]>>

RECURSIVE join(_)
\* "\n".join(lines)
join(lines) ==
    IF lines = <<>> THEN <<>>
    ELSE IF Len(lines) = 1 THEN lines[1]
    ELSE lines[1] \o <<NL>> \o join(Tail(lines))

RECURSIVE split(_, _)
\* text.split(sep) for a separator of one atom
split(text, sep) ==
    LET at == {k \in 1..Len(text) : text[k] = sep}
    IN  IF at = {} THEN <<text>>
        ELSE <<SubSeq(text, 1, Min(at) - 1)>>
             \o split(SubSeq(text, Min(at) + 1, Len(text)), sep)

\* line.strip()
strip(line) ==
    LET ink == {k \in 1..Len(line) : line[k] # SP /\ line[k] # NL}
    IN  IF ink = {} THEN <<>>
        ELSE SubSeq(line, Min(ink), CHOOSE k \in ink : \A j \in ink : j <= k)

\* line.startswith(prefix)
startswith(line, prefix) ==
    Len(line) >= Len(prefix) /\ SubSeq(line, 1, Len(prefix)) = prefix

RECURSIVE remove(_, _)
\* line.replace(old, "")
remove(line, old) ==
    IF Len(line) < Len(old) THEN line
    ELSE IF startswith(line, old)
         THEN remove(SubSeq(line, Len(old) + 1, Len(line)), old)
         ELSE <<Head(line)>> \o remove(Tail(line), old)

RECURSIVE int(_)
\* int(text) of a text of decimal digits
int(text) ==
    LET value(d) == CHOOSE v \in 0..9 : DigitChars[v + 1] = d
    IN  IF Len(text) = 1 THEN value(text[1])
        ELSE 10 * int(SubSeq(text, 1, Len(text) - 1)) + value(text[Len(text)])

RECURSIVE Flatten(_)
\* the concatenation of a sequence of sequences
Flatten(seqs) == IF seqs = <<>> THEN <<>> ELSE Head(seqs) \o Flatten(Tail(seqs))

\* reversed(list)
reversed(list) == [k \in 1..Len(list) |-> list[Len(list) + 1 - k]]

\* the fields __init__ sets before it calls load()
NewTracker ==
    [_patterns |-> <<>>, _sessions |-> <<>>, _current_session |-> 0,
     _features_completed |-> 0, _total_features |-> 0]

NoProgressFile == [exists |-> FALSE, content |-> <<>>]

RECURSIVE SumLen(_)
SumLen(sessions) ==
    IF sessions = <<>> THEN 0
    ELSE Len(Head(sessions).features) + SumLen(Tail(sessions))

\* pass_rate in tenths of a percent
_calculate_pass_rate(t) ==
    IF t._total_features = 0 THEN 0
    ELSE round1(SumLen(t._sessions), t._total_features)

\* ProgressTracker.get_stats
progress_get_stats(t) ==
    [total_sessions |-> Len(t._sessions),
     features_completed |-> SumLen(t._sessions),
     pass_rate |-> _calculate_pass_rate(t)]

\* the lines _render_progress writes for one session
render_session(t, s) ==
    <<<<SESSION>> \o Digits(s.number) \o <<DASH>> \o date_part(s.started_at)>>
    \o Flatten([k \in 1..Len(s.features) |->
                   IF s.features[k].notes # <<>>
                   THEN <<IMPLEMENTED \o s.features[k].name,
                          NOTES \o s.features[k].notes>>
                   ELSE <<IMPLEMENTED \o s.features[k].name>>])
    \o Flatten([k \in 1..Len(s.issues) |->
                   IF s.issues[k].resolution # <<>>
                   THEN <<ISSUE \o s.issues[k].issue,
                          RESOLUTION \o s.issues[k].resolution>>
                   ELSE <<ISSUE \o s.issues[k].issue>>])
    \o <<<<HYPHEN, SP, "Progress:", SP>>
         \o Digits(progress_get_stats(t).features_completed)
         \o <<" features completed">>,
         <<>>>>

_render_progress(t) ==
    join(<<<<TITLE>>, <<>>, <<PATTERNS_HEADER>>, <<PATTERNS_HINT>>>>
         \o [k \in 1..Len(t._patterns) |-> BULLET \o t._patterns[k]]
         \o <<<<>>, <<SESSIONS_HEADER>>, <<>>>>
         \o Flatten([k \in 1..Len(t._sessions) |->
                        render_session(t, reversed(t._sessions)[k])]))

\* one turn of the loop of _parse_progress; acc.current_session is the
\* position of the session the local current_session aliases, 0 for None
parse_line(acc, raw) ==
    LET line == strip(raw)
        parts == split(line, DASH)
    IN  IF line = <<PATTERNS_HEADER>>
        THEN [acc EXCEPT !.in_patterns = TRUE, !.in_sessions = FALSE]
        ELSE IF line = <<SESSIONS_HEADER>>
        THEN [acc EXCEPT !.in_patterns = FALSE, !.in_sessions = TRUE]
        ELSE IF acc.in_patterns /\ startswith(line, BULLET)
        THEN [acc EXCEPT !._patterns = Append(@, SubSeq(line, 3, Len(line)))]
        ELSE IF acc.in_sessions /\ startswith(line, <<SESSION>>)
        THEN [acc EXCEPT !._sessions =
                             Append(@, [number |-> int(remove(parts[1], <<SESSION>>)),
                                        started_at |-> IF Len(parts) > 1 THEN parts[2]
                                                       ELSE <<>>,
                                        features |-> <<>>,
                                        issues |-> <<>>]),
                         !.current_session = Len(acc._sessions) + 1]
        ELSE IF acc.in_sessions /\ acc.current_session # 0 /\ startswith(line, IMPLEMENTED)
        THEN [acc EXCEPT !._sessions[acc.current_session].features =
                             Append(@, [name |-> remove(line, IMPLEMENTED), notes |-> <<>>])]
        ELSE IF acc.in_sessions /\ acc.current_session # 0 /\ startswith(line, ISSUE)
        THEN [acc EXCEPT !._sessions[acc.current_session].issues =
                             Append(@, [issue |-> remove(line, ISSUE), resolution |-> <<>>])]
        ELSE acc

RECURSIVE parse_lines(_, _)
parse_lines(acc, lines) ==
    IF lines = <<>> THEN acc
    ELSE parse_lines(parse_line(acc, Head(lines)), Tail(lines))

\* appends to the lists the tracker holds
_parse_progress(t, content) ==
    LET acc == parse_lines([_patterns |-> t._patterns, _sessions |-> t._sessions,
                            in_patterns |-> FALSE, in_sessions |-> FALSE,
                            current_session |-> 0],
                           split(content, NL))
    IN  [t EXCEPT !._patterns = acc._patterns, !._sessions = acc._sessions]

\* ProgressTracker.load on the file pf
load(t, pf) == IF ~pf.exists THEN t ELSE _parse_progress(t, pf.content)

\* the tracker after start_session (the save that ends it writes this one)
start_session(t) ==
    [t EXCEPT !._sessions = Append(@, [number |-> Len(t._sessions) + 1,
                                       started_at |-> utcnow,
                                       features |-> <<>>,
                                       issues |-> <<>>]),
              !._current_session = Len(t._sessions) + 1]

\* the tracker after log_feature_complete
log_feature_complete(t, feature_name, notes) ==
    LET s == IF t._current_session = 0 THEN start_session(t) ELSE t
    IN  [s EXCEPT !._sessions[s._current_session].features =
                      Append(@, [name |-> feature_name, notes |-> notes]),
                  !._features_completed = @ + 1]

\* the tracker after log_issue
log_issue(t, issue, resolution) ==
    LET s == IF t._current_session = 0 THEN start_session(t) ELSE t
    IN  [s EXCEPT !._sessions[s._current_session].issues =
                      Append(@, [issue |-> issue, resolution |-> resolution])]

\* the tracker after add_pattern_to_progress
add_pattern_to_progress(t, pattern) ==
    IF \E k \in 1..Len(t._patterns) : t._patterns[k] = pattern THEN t
    ELSE [t EXCEPT !._patterns = Append(@, pattern)]

\* ProgressTracker.save: the file it writes
save(t) == [exists |-> TRUE, content |-> _render_progress(t)]

----------------------------------------------------------------------------
(* The learnings section of project_profile.json (builder/phase3/src/       *)
(* learnings.py).  json.dump and json.load keep the strings and the         *)
(* integers of the section as they are, so the document is the record       *)
(* itself; a text is compared as a whole only.  The profile may exist       *)
(* without a learnings section.  The clock values (added_at, updated_at)    *)
(* are left out but for updated_at, which counts the writes of the file.    *)

_empty_learnings == [patterns |-> <<>>, gotchas |-> <<>>, common_errors |-> <<>>]

NoProfile == [exists |-> FALSE, has_learnings |-> FALSE,
              learnings |-> _empty_learnings, updated_at |-> 0]

\* a profile an earlier phase wrote, without learnings
BareProfile == [exists |-> TRUE, has_learnings |-> FALSE,
                learnings |-> _empty_learnings, updated_at |-> 0]

load_learnings(p) ==
    IF ~p.exists THEN _empty_learnings
    ELSE IF p.has_learnings THEN p.learnings
    ELSE _empty_learnings

\* the profile save_learnings writes
save_learnings(p, learnings) ==
    [exists |-> TRUE, has_learnings |-> TRUE,
     learnings |-> learnings, updated_at |-> p.updated_at + 1]

\* a duplicate replaces the stored context
add_pattern_Overwrite(p, pattern, context) ==
    LET learnings == load_learnings(p)
        dup == {k \in 1..Len(learnings.patterns) : learnings.patterns[k].pattern = pattern}
    IN  IF dup # {}
        THEN save_learnings(p, [learnings EXCEPT !.patterns[Min(dup)].context = context])
        ELSE save_learnings(p, [learnings EXCEPT !.patterns =
                                    Append(@, [pattern |-> pattern, context |-> context])])

\* the profile after add_pattern
add_pattern(p, pattern, context) ==
    LET learnings == load_learnings(p)
    IN  IF \E k \in 1..Len(learnings.patterns) : learnings.patterns[k].pattern = pattern
        THEN p
        ELSE save_learnings(p, [learnings EXCEPT !.patterns =
                                    Append(@, [pattern |-> pattern, context |-> context])])

\* the profile after add_gotcha
add_gotcha(p, warning, reason) ==
    LET learnings == load_learnings(p)
    IN  IF \E k \in 1..Len(learnings.gotchas) : learnings.gotchas[k].warning = warning
        THEN p
        ELSE save_learnings(p, [learnings EXCEPT !.gotchas =
                                    Append(@, [warning |-> warning, reason |-> reason])])

\* a repeated error takes the fix of the later call
add_common_error_LastFix(p, error, fix) ==
    LET learnings == load_learnings(p)
        dup == {k \in 1..Len(learnings.common_errors) :
                   learnings.common_errors[k].error = error}
    IN  IF dup # {}
        THEN save_learnings(p, [learnings EXCEPT
                                    !.common_errors[Min(dup)].frequency = @ + 1,
                                    !.common_errors[Min(dup)].fix = fix])
        ELSE save_learnings(p, [learnings EXCEPT !.common_errors =
                                    Append(@, [error |-> error, fix |-> fix,
                                               frequency |-> 1])])

\* the profile after add_common_error
add_common_error(p, error, fix) ==
    LET learnings == load_learnings(p)
        dup == {k \in 1..Len(learnings.common_errors) :
                   learnings.common_errors[k].error = error}
    IN  IF dup # {}
        THEN save_learnings(p, [learnings EXCEPT
                                    !.common_errors[Min(dup)].frequency = @ + 1])
        ELSE save_learnings(p, [learnings EXCEPT !.common_errors =
                                    Append(@, [error |-> error, fix |-> fix,
                                               frequency |-> 1])])

\* a project directory on which no ProgressTracker and no learnings call
\* was made
NoKnowledge ==
    /\ tracker = NewTracker
    /\ progress_file = NoProgressFile
    /\ profile = NoProfile
    /\ history = <<>>

----------------
(* Initial states: a project directory holding a feature list in simple or  *)
(* enhanced format (or a mix, as create_bulk on a simple list produces), no *)
(* loop state file.                                                         *)

InitFeature ==
    {SimpleFeature(p) : p \in BOOLEAN}
    \cup {EnhancedFeature(i, i, p) : i \in ExplicitIds, p \in BOOLEAN}

UniqueIds(fs) ==
    \A j, k \in 1..Len(fs) :
        (j # k /\ fs[j].has_id /\ fs[k].has_id) => fs[j].id # fs[k].id

InitStores ==
    {fs \in UNION {[1..n -> InitFeature] : n \in 0..MaxLen} : UniqueIds(fs)}

\* any such list, some features already passing
InitQueue ==
    /\ NoKnowledge
    /\ procs = NoProcs
    /\ features \in InitStores
    /\ file = "list"
    /\ state = ClearedState
    /\ ret = Ret("init")
    /\ lookup = NoLookup
    /\ session = NoSession
    /\ calls = 0

\* a backlog on which no work was done yet
Init ==
    /\ InitQueue
    /\ \A k \in 1..Len(features) : ~features[k].passes

----------------------------------------------------------------------------
(* Reading and writing feature_list.json *)

\* what feature_list.json can be: a JSON list, no file at all, a text that is
\* no JSON document (empty, cut off in the middle of a write), or bytes that
\* are no UTF-8 text
FileKinds == {"list", "absent", "malformed", "undecodable"}

\* open(..., "r") decodes the bytes before json.load parses them: the
\* UnicodeDecodeError of bytes that are no text is a ValueError that is
\* neither json.JSONDecodeError nor IOError, so `except` lets it through
load_raises == file = "undecodable"

\* the list _load returns: the file's content, or [] when the file does not
\* exist or json.load raises JSONDecodeError
_load == IF file = "list" THEN features ELSE <<>>

\* json.dump(features, f) on the file opened with "w"
_save(fs) == features' = fs /\ file' = "list"

\* the exception of _load leaves the method: nothing is returned or written
Raise(op) ==
    /\ ret' = [Ret(op) EXCEPT !.raised = TRUE]
    /\ lookup' = NoLookup
    /\ session' = NoSession
    /\ calls' = calls + 1
    /\ UNCHANGED <<features, file, state>>

----------------------------------------------------------------------------
(* FeatureList calls *)

GetNext ==
    /\ UNCHANGED elsewhere
    /\ IF load_raises THEN Raise("get_next")
       ELSE LET r == get_next(_load)
            IN  /\ ret' = [Ret("get_next") EXCEPT !.found = r.found, !.index = r.index,
                                                  !.feature = r.feature]
                /\ session' = NoSession
                /\ calls' = calls + 1
                /\ lookup' = NoLookup
                /\ UNCHANGED <<features, file, state>>

GetById(feature_id) ==
    /\ UNCHANGED elsewhere
    /\ IF load_raises THEN Raise("get_by_id")
       ELSE LET r == get_by_id(_load, feature_id)
            IN  /\ ret' = [Ret("get_by_id") EXCEPT !.found = r.found, !.index = r.index,
                                                   !.feature = r.feature]
                /\ session' = NoSession
                /\ calls' = calls + 1
                /\ lookup' = Lookup(Some(feature_id), get_by_id(_load, feature_id))
                /\ UNCHANGED <<features, file, state>>

MarkPassing(feature_id) ==
    /\ UNCHANGED elsewhere
    /\ IF load_raises THEN Raise("mark_passing")
       ELSE LET r == mark_passing(_load, feature_id)
            IN  /\ IF r.found THEN _save(r.features) ELSE UNCHANGED <<features, file>>
                /\ ret' = [Ret("mark_passing") EXCEPT !.found = r.found]
                /\ session' = NoSession
                /\ calls' = calls + 1
                /\ lookup' = Lookup(Some(feature_id), get_by_id(_load, feature_id))
                /\ UNCHANGED state

MarkInProgress(feature_id) ==
    /\ UNCHANGED elsewhere
    /\ IF load_raises THEN Raise("mark_in_progress")
       ELSE LET r == mark_in_progress(_load, feature_id)
            IN  /\ IF r.found THEN _save(r.features) ELSE UNCHANGED <<features, file>>
                /\ ret' = [Ret("mark_in_progress") EXCEPT !.found = r.found]
                /\ session' = NoSession
                /\ calls' = calls + 1
                /\ lookup' = Lookup(Some(feature_id), get_by_id(_load, feature_id))
                /\ UNCHANGED state

ClearInProgress(feature_id) ==
    /\ UNCHANGED elsewhere
    /\ IF load_raises THEN Raise("clear_in_progress")
       ELSE LET r == clear_in_progress(_load, feature_id)
            IN  /\ IF r.found THEN _save(r.features) ELSE UNCHANGED <<features, file>>
                /\ ret' = [Ret("clear_in_progress") EXCEPT !.found = r.found]
                /\ session' = NoSession
                /\ calls' = calls + 1
                /\ lookup' = Lookup(Some(feature_id), get_by_id(_load, feature_id))
                /\ UNCHANGED state

Skip(feature_id) ==
    /\ UNCHANGED elsewhere
    /\ IF load_raises THEN Raise("skip")
       ELSE LET r == skip(_load, feature_id)
            IN  /\ IF r.found THEN _save(r.features) ELSE UNCHANGED <<features, file>>
                /\ ret' = [Ret("skip") EXCEPT !.found = r.found]
                /\ session' = NoSession
                /\ calls' = calls + 1
                /\ lookup' = Lookup(Some(feature_id), get_by_id(_load, feature_id))
                /\ UNCHANGED state

IncrementAttempt(feature_id, error) ==
    /\ UNCHANGED elsewhere
    /\ IF load_raises THEN Raise("increment_attempt")
       ELSE LET r == increment_attempt(_load, feature_id, error)
            IN  /\ \A k \in 1..Len(r.features) : r.features[k].attempt_count <= MaxAttempt
                /\ IF r.found THEN _save(r.features) ELSE UNCHANGED <<features, file>>
                /\ ret' = [Ret("increment_attempt") EXCEPT !.found = r.found]
                /\ session' = NoSession
                /\ calls' = calls + 1
                /\ lookup' = Lookup(Some(feature_id), get_by_id(_load, feature_id))
                /\ UNCHANGED state

\* the list is saved whatever n is
CreateBulk(n) ==
    /\ UNCHANGED elsewhere
    /\ IF load_raises THEN Raise("create_bulk")
       ELSE LET r == create_bulk(_load, n)
            IN  /\ Len(_load) + n <= MaxLen
                /\ _save(r.features)
                /\ ret' = [Ret("create_bulk") EXCEPT !.count = r.count]
                /\ session' = NoSession
                /\ calls' = calls + 1
                /\ lookup' = NoLookup
                /\ UNCHANGED state

GetStats ==
    /\ UNCHANGED elsewhere
    /\ IF load_raises THEN Raise("get_stats")
       ELSE /\ ret' = [Ret("get_stats") EXCEPT !.stats = get_stats(_load)]
            /\ session' = NoSession
            /\ calls' = calls + 1
            /\ lookup' = NoLookup
            /\ UNCHANGED <<features, file, state>>

GetForRegression(limit) ==
    /\ UNCHANGED elsewhere
    /\ IF load_raises THEN Raise("get_for_regression")
       ELSE /\ \E sample \in get_for_regression(_load, limit) :
                  ret' = [Ret("get_for_regression") EXCEPT !.sample = sample,
                                                           !.limit = limit]
            /\ session' = NoSession
            /\ calls' = calls + 1
            /\ lookup' = NoLookup
            /\ UNCHANGED <<features, file, state>>

IsComplete ==
    /\ UNCHANGED elsewhere
    /\ IF load_raises THEN Raise("is_complete")
       ELSE /\ ret' = [Ret("is_complete") EXCEPT !.complete = is_complete(_load)]
            /\ session' = NoSession
            /\ calls' = calls + 1
            /\ lookup' = NoLookup
            /\ UNCHANGED <<features, file, state>>

----------------------------------------------------------------------------
(* RalphLoopController calls.  Each FeatureList method the controller calls *)
(* loads the file again; between two calls of one method nothing else       *)
(* writes it.                                                               *)

StartValidation(feature_id) ==
    /\ UNCHANGED elsewhere
    /\ LET r == get_by_id(_load, feature_id)
           marked == mark_in_progress(_load, feature_id)
       IN  IF load_raises THEN Raise("start_validation")
           ELSE IF ~r.found
           THEN /\ ret' = Ret("start_validation")
                /\ lookup' = Lookup(Some(feature_id), r)
                /\ session' = NoSession
                /\ calls' = calls + 1
                /\ UNCHANGED <<features, file, state>>
           ELSE /\ IF marked.found THEN _save(marked.features)
                                   ELSE UNCHANGED <<features, file>>
                /\ state' = [current_feature |-> Some(feature_id), iteration |-> 0]
                /\ ret' = [Ret("start_validation") EXCEPT
                              !.found = TRUE,
                              !.prompt = create_validation_prompt(r.feature)]
                /\ lookup' = Lookup(Some(feature_id), r)
                /\ session' = [a |-> r.feature.attempt_count, streak |-> 0, pure |-> TRUE]
                /\ calls' = calls + 1

\* return True, None
Done == [Ret("continue_validation") EXCEPT !.done = TRUE]

ContinueValidation(output) ==
    /\ UNCHANGED elsewhere
    /\ LET feature_id == state.current_feature
           r == get_by_id(_load, feature_id.value)
           result == process_result(r.feature, output)
           incremented == increment_attempt(_load, feature_id.value, "None").features
       IN  IF Falsy(feature_id)
           THEN /\ ret' = Done
                /\ lookup' = Lookup(feature_id, NotFound)
                /\ session' = NoSession
                /\ calls' = calls + 1
                /\ UNCHANGED <<features, file, state>>
           ELSE IF load_raises THEN Raise("continue_validation")
           ELSE IF ~r.found
           THEN /\ ret' = Done
                /\ lookup' = Lookup(feature_id, r)
                /\ session' = NoSession
                /\ calls' = calls + 1
                /\ UNCHANGED <<features, file, state>>
           ELSE IF result.validated
           THEN /\ _save(mark_passing(_load, feature_id.value).features)
                /\ state' = ClearedState
                /\ ret' = Done
                /\ lookup' = Lookup(feature_id, r)
                /\ session' = NoSession
                /\ calls' = calls + 1
           ELSE IF result.blocked \/ ~result.should_continue
           THEN /\ _save(clear_in_progress(_load, feature_id.value).features)
                /\ state' = ClearedState
                /\ ret' = Done
                /\ lookup' = Lookup(feature_id, r)
                /\ session' = NoSession
                /\ calls' = calls + 1
           ELSE /\ _save(incremented)
                /\ state' = [state EXCEPT !.iteration = @ + 1]
                /\ ret' = [Ret("continue_validation") EXCEPT
                              !.done = FALSE,
                              !.prompt = create_validation_prompt(
                                             get_by_id(incremented, feature_id.value).feature)]
                /\ lookup' = Lookup(feature_id, r)
                /\ session' = [session EXCEPT
                                  !.streak = IF @ < MaxStreak THEN @ + 1 ELSE @]
                /\ calls' = calls + 1

----------------

\* ids the agent may name in a promise: the id of the running session and
\* the id shown in the prompt
AgentIds ==
    LET c == state.current_feature.value
    IN  {c, get_by_id(_load, c).feature.id}

\* an id that shares its digits with the session's id, and the next id
OtherIds ==
    LET c == state.current_feature.value
    IN  {c + 10, c + 1}

Outputs == OutputsFor(AgentIds, OtherIds)

\* the validation loop driven by its caller
Next ==
    \/ calls < MaxCalls /\ \E feature_id \in CallIds : StartValidation(feature_id)
    \/ calls < MaxCalls /\ \E output \in Outputs : ContinueValidation(output)

Spec == Init /\ [][Next]_vars

\* every call of the two classes, in any order
NextQueue ==
    \/ calls < MaxQueueCalls /\ GetNext
    \/ calls < MaxQueueCalls /\ \E feature_id \in CallIds : GetById(feature_id)
    \/ calls < MaxQueueCalls /\ \E feature_id \in CallIds : MarkPassing(feature_id)
    \/ calls < MaxQueueCalls /\ \E feature_id \in CallIds : MarkInProgress(feature_id)
    \/ calls < MaxQueueCalls /\ \E feature_id \in CallIds : ClearInProgress(feature_id)
    \/ calls < MaxQueueCalls /\ \E feature_id \in CallIds : Skip(feature_id)
    \/ calls < MaxQueueCalls
       /\ \E feature_id \in CallIds, error \in Errors : IncrementAttempt(feature_id, error)
    \/ calls < MaxQueueCalls /\ \E n \in 0..MaxLen : CreateBulk(n)
    \/ calls < MaxQueueCalls /\ \E feature_id \in CallIds : StartValidation(feature_id)
    \/ calls < MaxQueueCalls /\ \E output \in Outputs : ContinueValidation(output)

SpecQueue == InitQueue /\ [][NextQueue]_vars

----------------------------------------------------------------------------
(* One call on a project directory found in any condition: the FeatureList  *)
(* and RalphLoopController objects hold no state of their own, every call   *)
(* starts from the two files.                                               *)

\* a record a validation session worked on up to the cap: mark_in_progress,
\* then increment_attempt with an error as often as the cap allows
WorkedOn(f) ==
    [f EXCEPT !.in_progress = "true", !.has_attempt_count = TRUE,
              !.attempt_count = MaxIterations, !.last_error = "E0"]

CallFeature ==
    InitFeature
    \cup {WorkedOn(SimpleFeature(FALSE))}
    \cup {WorkedOn(EnhancedFeature(i, i, FALSE)) : i \in ExplicitIds}

CallStores ==
    {fs \in UNION {[1..n -> CallFeature] : n \in 0..MaxLen} : UniqueIds(fs)}

\* the loop state file is absent or cleared, or names a feature of the list
\* (a session that start_validation opened and no call has ended yet)
CallStates(fs) ==
    {ClearedState}
    \cup {[current_feature |-> Some(x), iteration |-> 0] :
             x \in {y \in CallIds : get_by_id(fs, y).found}}

InitCall ==
    /\ NoKnowledge
    /\ procs = NoProcs
    /\ file \in FileKinds
    /\ features \in IF file = "list" THEN CallStores ELSE {<<>>}
    /\ state \in CallStates(features)
    /\ ret = Ret("init")
    /\ lookup = NoLookup
    /\ session = NoSession
    /\ calls = 0

NextCall ==
    \/ calls = 0 /\ GetNext
    \/ calls = 0 /\ \E feature_id \in CallIds : GetById(feature_id)
    \/ calls = 0 /\ \E feature_id \in CallIds : MarkPassing(feature_id)
    \/ calls = 0 /\ \E feature_id \in CallIds : MarkInProgress(feature_id)
    \/ calls = 0 /\ \E feature_id \in CallIds : ClearInProgress(feature_id)
    \/ calls = 0 /\ \E feature_id \in CallIds : Skip(feature_id)
    \/ calls = 0
       /\ \E feature_id \in CallIds, error \in Errors : IncrementAttempt(feature_id, error)
    \/ calls = 0 /\ \E n \in 0..MaxLen : CreateBulk(n)
    \/ calls = 0 /\ \E feature_id \in CallIds : StartValidation(feature_id)
    \/ calls = 0 /\ GetStats
    \/ calls = 0 /\ \E limit \in Limits : GetForRegression(limit)
    \/ calls = 0 /\ IsComplete

SpecCall == InitCall /\ [][NextCall]_vars

\* one continue_validation call on a project directory found in any
\* condition, a session open or not
NextAnswer == calls = 0 /\ \E output \in Outputs : ContinueValidation(output)

SpecAnswer == InitCall /\ [][NextAnswer]_vars

----------------------------------------------------------------------------
(* Two processes calling mark_passing on the same project directory.  A     *)
(* call is two steps, as nothing ties the read of the file to its later     *)
(* write: `features = self._load()`, then the search, the change of the     *)
(* local list and `self._save(features)`.                                   *)

Procs == {"p1", "p2"}

Other(p) == IF p = "p1" THEN "p2" ELSE "p1"

\* the file read again when the list is written, as under a lock
race_base_Reloaded(p) == _load

\* the list the call changes and saves: its local variable `features`
race_base(p) == procs[p].features

\* features = self._load()
RaceLoad(p, feature_id) ==
    /\ procs[p].pc = "idle"
    /\ procs' = [procs EXCEPT
                    ![p] = [pc |-> "loaded", feature_id |-> feature_id,
                            features |-> _load, found |-> FALSE],
                    !.overlap = @ \/ procs[Other(p)].pc = "loaded"]
    /\ UNCHANGED <<features, file, state, ret, lookup, session, calls,
                 tracker, progress_file, profile, history>>

\* the rest of mark_passing, on the list loaded earlier
RaceReturn(p) ==
    /\ procs[p].pc = "loaded"
    /\ LET r == mark_passing(race_base(p), procs[p].feature_id)
       IN  /\ IF r.found THEN _save(r.features) ELSE UNCHANGED <<features, file>>
           /\ procs' = [procs EXCEPT ![p].pc = "done", ![p].found = r.found]
    /\ UNCHANGED <<state, ret, lookup, session, calls,
                 tracker, progress_file, profile, history>>

InitRace ==
    /\ NoKnowledge
    /\ procs = NoProcs
    /\ file = "list"
    /\ features \in InitStores
    /\ state = ClearedState
    /\ ret = Ret("init")
    /\ lookup = NoLookup
    /\ session = NoSession
    /\ calls = 0

NextRace ==
    \/ \E p \in Procs, feature_id \in CallIds : RaceLoad(p, feature_id)
    \/ \E p \in Procs : RaceReturn(p)

SpecRace == InitRace /\ [][NextRace]_vars

\* get_stats as a function of the file content: lists long enough for the
\* percentage to fall halfway between two tenths, made of a run of passing
\* records, a run of records in progress and a run of pending records
StatStore(a, b, c) ==
    [k \in 1..(a + b + c) |->
        IF k <= a THEN SimpleFeature(TRUE)
        ELSE IF k <= a + b THEN WorkedOn(SimpleFeature(FALSE))
        ELSE SimpleFeature(FALSE)]

StatStores ==
    {StatStore(t[1], t[2], t[3]) :
        t \in {u \in (0..MaxTotal) \X (0..2) \X (0..MaxTotal) :
                  u[1] + u[2] + u[3] <= MaxTotal}}

InitStats ==
    /\ NoKnowledge
    /\ procs = NoProcs
    /\ file = "list"
    /\ features \in StatStores
    /\ state = ClearedState
    /\ ret = Ret("init")
    /\ lookup = NoLookup
    /\ session = NoSession
    /\ calls = 0

NextStats ==
    \/ calls = 0 /\ GetStats
    \/ calls = 0 /\ IsComplete

SpecStats == InitStats /\ [][NextStats]_vars

\* get_by_id as a function of the file content: the code reads whatever list
\* the file holds, lists in which two records carry the same id included
LookupStores == UNION {[1..n -> InitFeature] : n \in 0..MaxLen}

InitLookup ==
    /\ NoKnowledge
    /\ procs = NoProcs
    /\ features \in LookupStores
    /\ file = "list"
    /\ state = ClearedState
    /\ ret = Ret("init")
    /\ lookup = NoLookup
    /\ session = NoSession
    /\ calls = 0

NextLookup == calls = 0 /\ \E feature_id \in CallIds : GetById(feature_id)

SpecLookup == InitLookup /\ [][NextLookup]_vars

\* a caller working the queue off: f = get_next(), then mark_passing(f["id"]),
\* until get_next returns None or the rounds allowed are used up
MaxRounds == MaxLen + 1

WorkNext ==
    /\ ret.op # "get_next"
    /\ calls < 2 * MaxRounds
    /\ GetNext

WorkMark ==
    /\ ret.op = "get_next"
    /\ ret.found
    /\ MarkPassing(ret.feature.id)

NextWork == WorkNext \/ WorkMark

SpecWork == InitQueue /\ [][NextWork]_vars

----------------
(* A session with one queue call between start_validation and the first     *)
(* continue_validation: the two classes share feature_list.json, and every  *)
(* call starts from the file.                                               *)

\* a record a session gave up on at the cap: increment_attempt up to the
\* cap, then clear_in_progress
Exhausted(f) ==
    [f EXCEPT !.in_progress = "false", !.has_attempt_count = TRUE,
              !.attempt_count = MaxIterations, !.last_error = "E0"]

SessionFeature ==
    InitFeature
    \cup {Exhausted(SimpleFeature(FALSE))}
    \cup {Exhausted(EnhancedFeature(i, i, FALSE)) : i \in ExplicitIds}

SessionStores ==
    {fs \in UNION {[1..n -> SessionFeature] : n \in 0..MaxLen} : UniqueIds(fs)}

\* no session under way, no record in progress
InitSession ==
    /\ NoKnowledge
    /\ procs = NoProcs
    /\ features \in SessionStores
    /\ file = "list"
    /\ state = ClearedState
    /\ ret = Ret("init")
    /\ lookup = NoLookup
    /\ session = NoSession
    /\ calls = 0

NextSession ==
    \/ calls = 0 /\ \E feature_id \in CallIds : StartValidation(feature_id)
    \/ calls = 1 /\ \E feature_id \in CallIds : MarkPassing(feature_id)
    \/ calls = 1 /\ \E feature_id \in CallIds : MarkInProgress(feature_id)
    \/ calls = 1 /\ \E feature_id \in CallIds : ClearInProgress(feature_id)
    \/ calls = 1 /\ \E feature_id \in CallIds : Skip(feature_id)
    \/ calls = 1
       /\ \E feature_id \in CallIds, error \in Errors : IncrementAttempt(feature_id, error)
    \/ calls = 1 /\ \E n \in 0..MaxLen : CreateBulk(n)
    \/ calls \in {1, 2} /\ \E output \in Outputs : ContinueValidation(output)

SpecSession == InitSession /\ [][NextSession]_vars

----------------------------------------------------------------------------
(* ProgressTracker and KnowledgeManager calls.  `tracker` is the            *)
(* ProgressTracker object at work (the `progress` attribute of a            *)
(* KnowledgeManager), `progress_file` what claude-progress.txt holds,       *)
(* `profile` what project_profile.json holds, `history` the learnings calls *)
(* made so far, in order.                                                   *)

\* the variables no ProgressTracker, KnowledgeManager or learnings call
\* reads or writes
queue == <<features, file, state, ret, lookup, session, procs>>

FeatureNames == {<<"A">>, <<"B">>}
\* no notes, or two lines of notes
NoteTexts == {<<>>, <<"A", NL, HYPHEN, SP, "Implemented:", SP, "B">>}
IssueTexts == {<<"A">>}
\* a pattern of one line and one of two
PatternTexts == {<<"A">>, <<"A", NL, "B">>}
ContextTexts == {<<"c1">>, <<"c2">>}
ErrorTexts == {<<"A">>, <<"B">>}

StartSession ==
    /\ tracker' = start_session(tracker)
    /\ progress_file' = save(tracker')
    /\ calls' = calls + 1
    /\ UNCHANGED <<queue, profile, history>>

LogFeatureComplete(feature_name, notes) ==
    /\ tracker' = log_feature_complete(tracker, feature_name, notes)
    /\ progress_file' = save(tracker')
    /\ calls' = calls + 1
    /\ UNCHANGED <<queue, profile, history>>

LogIssue(issue, resolution) ==
    /\ tracker' = log_issue(tracker, issue, resolution)
    /\ progress_file' = save(tracker')
    /\ calls' = calls + 1
    /\ UNCHANGED <<queue, profile, history>>

AddPatternToProgress(pattern) ==
    /\ tracker' = add_pattern_to_progress(tracker, pattern)
    /\ progress_file' = IF tracker' = tracker THEN progress_file ELSE save(tracker')
    /\ calls' = calls + 1
    /\ UNCHANGED <<queue, profile, history>>

\* ProgressTracker(project_dir): a new object over the directory
Construct ==
    /\ tracker' = load(NewTracker, progress_file)
    /\ calls' = calls + 1
    /\ UNCHANGED <<queue, progress_file, profile, history>>

\* a session of work with one tracker after another on an empty project
InitProgress ==
    /\ NoKnowledge
    /\ procs = NoProcs
    /\ features = <<>>
    /\ file = "absent"
    /\ state = ClearedState
    /\ ret = Ret("init")
    /\ lookup = NoLookup
    /\ session = NoSession
    /\ calls = 0

NextProgress ==
    /\ calls < MaxProgressCalls
    /\ \/ StartSession
       \/ \E feature_name \in FeatureNames, notes \in NoteTexts :
             LogFeatureComplete(feature_name, notes)
       \/ \E issue \in IssueTexts : LogIssue(issue, <<>>)
       \/ \E pattern \in PatternTexts : AddPatternToProgress(pattern)
       \/ Construct

SpecProgress == InitProgress /\ [][NextProgress]_vars

\* learnings.add_pattern
AddPattern(pattern, context) ==
    /\ profile' = add_pattern(profile, pattern, context)
    /\ history' = Append(history, [op |-> "add_pattern", key |-> pattern, value |-> context])
    /\ calls' = calls + 1
    /\ UNCHANGED <<queue, tracker, progress_file>>

\* learnings.add_gotcha
AddGotcha(warning, reason) ==
    /\ profile' = add_gotcha(profile, warning, reason)
    /\ history' = Append(history, [op |-> "add_gotcha", key |-> warning, value |-> reason])
    /\ calls' = calls + 1
    /\ UNCHANGED <<queue, tracker, progress_file>>

\* learnings.add_common_error
AddCommonError(error, fix) ==
    /\ profile' = add_common_error(profile, error, fix)
    /\ history' = Append(history, [op |-> "add_common_error", key |-> error, value |-> fix])
    /\ calls' = calls + 1
    /\ UNCHANGED <<queue, tracker, progress_file>>

\* a project with no learnings yet, its profile written or not
InitLearnings ==
    /\ tracker = NewTracker
    /\ progress_file = NoProgressFile
    /\ profile \in {NoProfile, BareProfile}
    /\ history = <<>>
    /\ procs = NoProcs
    /\ features = <<>>
    /\ file = "absent"
    /\ state = ClearedState
    /\ ret = Ret("init")
    /\ lookup = NoLookup
    /\ session = NoSession
    /\ calls = 0

NextLearnings ==
    /\ calls < MaxLearningCalls
    /\ \/ \E pattern \in FeatureNames, context \in ContextTexts : AddPattern(pattern, context)
       \/ \E warning \in FeatureNames, reason \in ContextTexts : AddGotcha(warning, reason)
       \/ \E error \in ErrorTexts, fix \in ContextTexts : AddCommonError(error, fix)

SpecLearnings == InitLearnings /\ [][NextLearnings]_vars

\* KnowledgeManager.add_pattern: the learnings, then the progress file
KmAddPattern(pattern, context) ==
    /\ profile' = add_pattern(profile, pattern, context)
    /\ history' = Append(history, [op |-> "add_pattern", key |-> pattern, value |-> context])
    /\ tracker' = add_pattern_to_progress(tracker, pattern)
    /\ progress_file' = IF tracker' = tracker THEN progress_file ELSE save(tracker')
    /\ calls' = calls + 1
    /\ UNCHANGED queue

\* KnowledgeManager.refresh: the learnings cache dropped (every reader of
\* the learnings loads the file anyway), then progress.load()
Refresh ==
    /\ tracker' = load(tracker, progress_file)
    /\ calls' = calls + 1
    /\ UNCHANGED <<queue, progress_file, profile, history>>

\* one KnowledgeManager at work on an empty project
NextKnowledge ==
    /\ calls < MaxProgressCalls
    /\ \/ StartSession
       \/ \E feature_name \in FeatureNames : LogFeatureComplete(feature_name, <<>>)
       \/ \E pattern \in PatternTexts, context \in ContextTexts : KmAddPattern(pattern, context)
       \/ Refresh

SpecKnowledge == InitProgress /\ [][NextKnowledge]_vars

----------------------------------------------------------------------------
(* Properties of the validation loop *)

\* the id of the running session and the record it resolves to
X == state.current_feature.value
Active == ~state.current_feature.is_none
Current(fs) == get_by_id(fs, X)

\* the markers of a text, as the pairs <<opening tag, closing tag>> enclosing
\* a non-empty token on one line
MarkerSpans(output) ==
    {sp \in (1..Len(output)) \X (1..Len(output)) :
        /\ output[sp[1]] = OPEN
        /\ output[sp[2]] = CLOSE
        /\ sp[2] > sp[1] + 1
        /\ \A k \in (sp[1] + 1)..(sp[2] - 1) : output[k] # NL}

HasMarker(output) == MarkerSpans(output) # {}

\* the token of the first marker: earliest opening tag, then earliest closing tag
FirstToken(output) ==
    LET first == CHOOSE sp \in MarkerSpans(output) :
                     \A other \in MarkerSpans(output) :
                         \/ sp[1] < other[1]
                         \/ sp[1] = other[1] /\ sp[2] <= other[2]
    IN  SubSeq(output, first[1] + 1, first[2] - 1)

\* return True, None
ReturnsDone == ret'.done /\ ~ret'.prompt.some

\* C1: for every feature id X, 0 included: after start_validation(X) on a
\* non-passing feature, a continue_validation call whose output contains
\* <promise>FEATURE_X_VALIDATED</promise> makes feature X passing, clears the
\* loop state to {None, 0} and returns done=true with no prompt.
C1_SuccessMarkerMakesPassing ==
    [][(Active /\ Current(features).found /\ ~Current(features).feature.passes)
          => \A output \in Outputs :
                (/\ Contains(output, Marker(ValidatedToken(X)))
                 /\ ContinueValidation(output))
                   => /\ get_by_id(features', X).feature.passes
                      /\ state' = ClearedState
                      /\ ReturnsDone]_vars

\* C2: for any store and any active session on feature X whose attempt_count
\* is below the cap, a continue_validation call whose output carries no promise
\* marker raises the attempt_count of feature X itself by exactly 1, raises the
\* iteration by exactly 1, keeps current_feature = X and returns done=false with
\* a prompt.
C2_NoMarkerIncrementsAttempt ==
    [][(/\ Active
        /\ Current(features).found
        /\ Current(features).feature.attempt_count < MaxIterations)
          => \A output \in Outputs :
                (~HasMarker(output) /\ ContinueValidation(output))
                   => /\ get_by_id(features', X).feature.attempt_count
                            = Current(features).feature.attempt_count + 1
                      /\ state'.iteration = state.iteration + 1
                      /\ state'.current_feature = state.current_feature
                      /\ ~ret'.done
                      /\ ret'.prompt.some]_vars

\* C3: a session started on a feature with attempt_count = a under cap c sees
\* continue_validation return done=false at most max(0, c - a) times in a row,
\* whatever the agent answers and whatever the store holds, so that the call
\* after that many returns done=true.  (That a done=true call leaves the loop
\* idle is the statement of C7.)
C3_NonTerminalRunBounded ==
    session.pure => session.streak <= Max0(0, MaxIterations - session.a)

\* C4: when the current feature's attempt_count is at or above the cap at the
\* moment continue_validation is called on an active session, the call returns
\* done=true with no prompt whatever the output contains, and no attempt_count
\* is raised by that call.
C4_CapEndsSession ==
    [][(/\ Active
        /\ Current(features).found
        /\ Current(features).feature.attempt_count >= MaxIterations)
          => \A output \in Outputs :
                ContinueValidation(output)
                   => /\ ReturnsDone
                      /\ Len(features') = Len(features)
                      /\ \A k \in 1..Len(features) :
                            features'[k].attempt_count = features[k].attempt_count]_vars

\* a continue_validation call found its feature at the cap and returned done
C4_Witness ==
    /\ ret.op = "continue_validation"
    /\ ret.done
    /\ ~lookup.feature_id.is_none
    /\ lookup.found
    /\ lookup.feature.attempt_count >= MaxIterations
    /\ ~lookup.feature.passes

\* C5: for an active session on feature X, a continue_validation call whose
\* first promise marker contains FEATURE_X_BLOCKED and not FEATURE_X_VALIDATED
\* sets X's in_progress to false, leaves X's passes and attempt_count as they
\* were, clears the loop state to {None, 0} and returns done=true with no prompt.
C5_BlockedMarkerEndsSession ==
    [][(Active /\ Current(features).found)
          => \A output \in Outputs :
                (/\ HasMarker(output)
                 /\ Contains(FirstToken(output), BlockedToken(X))
                 /\ ~Contains(FirstToken(output), ValidatedToken(X))
                 /\ ContinueValidation(output))
                   => /\ get_by_id(features', X).feature.in_progress = "false"
                      /\ get_by_id(features', X).feature.passes
                            = Current(features).feature.passes
                      /\ get_by_id(features', X).feature.attempt_count
                            = Current(features).feature.attempt_count
                      /\ state' = ClearedState
                      /\ ReturnsDone]_vars


\* C6: for every id X that get_by_id resolves, whatever the feature's flags and
\* whether or not another session is active, start_validation(X) leaves
\* feature X with in_progress=true and the loop state equal to {X, 0}, and
\* returns a prompt.
C6_StartMarksInProgress ==
    [][\A feature_id \in CallIds :
          (get_by_id(features, feature_id).found /\ StartValidation(feature_id))
             => /\ get_by_id(features', feature_id).feature.in_progress = "true"
                /\ state' = [current_feature |-> Some(feature_id), iteration |-> 0]
                /\ ret'.prompt.some]_vars

\* C6 as amended: start_validation(X) on a resolvable id sets the loop state to
\* {X, 0} and returns a prompt; it leaves feature X with in_progress=true when
\* X does not pass yet, and leaves the feature list as it was when X passes.
C6_StartMarksInProgressUnlessPassing ==
    [][\A feature_id \in CallIds :
          (get_by_id(features, feature_id).found /\ StartValidation(feature_id))
             => /\ state' = [current_feature |-> Some(feature_id), iteration |-> 0]
                /\ ret'.prompt.some
                /\ IF get_by_id(features, feature_id).feature.passes
                   THEN features' = features
                   ELSE get_by_id(features', feature_id).feature.in_progress = "true"]_vars

\* start_validation ran on a passing feature while the loop state was cleared
\* by the session that made it pass
C6_Witness ==
    /\ ret.op = "start_validation"
    /\ lookup.found
    /\ lookup.feature.passes
    /\ state = [current_feature |-> lookup.feature_id, iteration |-> 0]
    /\ get_by_id(features, lookup.feature_id.value).feature.in_progress # "true"

\* C7: after any continue_validation call that returns done=true the loop
\* state is {None, 0}, for every feature id a session can be started on.
C7_DoneClearsLoopState ==
    (ret.op = "continue_validation" /\ ret.done) => state = ClearedState

\* C9: continue_validation looks at the first marker only.  With id the id of
\* the current feature: the call makes a non-passing feature pass iff the first
\* token contains FEATURE_{id}_VALIDATED; it ends the session without a pass
\* iff the first token contains FEATURE_{id}_BLOCKED and not the success token,
\* or the cap is reached; a first token with neither leaves the call
\* non-terminal below the cap, whatever later markers say; and a marker that
\* is exactly FEATURE_Y_VALIDATED for another id Y never makes the feature pass.
C9_FirstMarkerDecides ==
    [][(Active /\ Current(features).found /\ ~Current(features).feature.passes)
          => \A output \in Outputs :
                ContinueValidation(output)
                   => LET id == Current(features).feature.id
                          capped == Current(features).feature.attempt_count >= MaxIterations
                          success == HasMarker(output)
                                     /\ Contains(FirstToken(output), ValidatedToken(id))
                          blocked == HasMarker(output) /\ ~success
                                     /\ Contains(FirstToken(output), BlockedToken(id))
                          passing == get_by_id(features', X).feature.passes
                      IN  /\ passing <=> success
                          /\ (ret'.done /\ ~passing) <=> (~success /\ (blocked \/ capped))
                          /\ (~success /\ ~blocked /\ ~capped) => ~ret'.done
                          /\ \A y \in AgentIds \cup OtherIds :
                                (y # id /\ output = Marker(ValidatedToken(y))) => ~passing]_vars

\* C8: continue_validation called while the loop state holds no current
\* feature (never started, or cleared by a terminal outcome) returns done=true
\* with no prompt and changes neither the feature list nor the loop state,
\* whatever the output contains.
C8_IdleContinueIsNoop ==
    [][\A output \in Outputs :
          (state.current_feature.is_none /\ ContinueValidation(output))
             => /\ ret'.done
                /\ ~ret'.prompt.some
                /\ features' = features
                /\ state' = state]_vars

\* continue_validation was called on a loop state that a successful session
\* had cleared
C8_Witness ==
    /\ ret.op = "continue_validation"
    /\ lookup.feature_id.is_none
    /\ ret.done
    /\ features # <<>>
    /\ calls >= 3
    /\ \E k \in 1..Len(features) : features[k].passes

----------------------------------------------------------------------------
(* Properties of the queue *)

ExplicitAt(fs, feature_id) ==
    {p \in Positions(fs) : fs[p + 1].has_id /\ fs[p + 1].id = feature_id}

InRange(fs, feature_id) == 0 <= feature_id /\ feature_id < Len(fs)

\* C11: get_by_id(id) returns the first record in store order whose explicit
\* id equals id; only when no record has that explicit id does it return the
\* record at array position id, provided 0 <= id < length; otherwise (negative
\* ids included) it returns not-found.  An explicit-id match shadows the record
\* at that numeric position.
C11_GetByIdExplicitFirst ==
    [][\A feature_id \in CallIds :
          GetById(feature_id)
             => LET explicit == ExplicitAt(features, feature_id)
                IN  /\ features' = features
                    /\ explicit # {} =>
                          /\ ret'.found
                          /\ ret'.index \in explicit
                          /\ \A p \in explicit : ret'.index <= p
                          /\ ret'.feature = features[ret'.index + 1]
                    /\ (explicit = {} /\ InRange(features, feature_id)) =>
                          /\ ret'.found
                          /\ ret'.index = feature_id
                          /\ ret'.feature.has_id
                          /\ ret'.feature.id = get_feature_id(features[feature_id + 1],
                                                              feature_id)
                          /\ [ret'.feature EXCEPT !.has_id = FALSE, !.id = 0]
                                = [features[feature_id + 1] EXCEPT !.has_id = FALSE, !.id = 0]
                    /\ (explicit = {} /\ ~InRange(features, feature_id)) => ~ret'.found]_vars

\* get_by_id returned the first of two records carrying the requested id,
\* although the list has a record at the position of that number
C11_Witness ==
    /\ ret.op = "get_by_id"
    /\ ret.found
    /\ ~lookup.feature_id.is_none
    /\ ret.feature.has_id
    /\ ret.feature.id = lookup.feature_id.value
    /\ features[ret.index + 1].has_id
    /\ ret.index # lookup.feature_id.value
    /\ InRange(features, lookup.feature_id.value)
    /\ \E k \in (ret.index + 2)..Len(features) :
          features[k].has_id /\ features[k].id = lookup.feature_id.value

\* C12: for a resolvable id of a non-passing feature, skip(id) moves that
\* record to the last position of the store, keeps the relative order of all
\* other records, sets the moved record's in_progress to false and changes no
\* other field of any record; total is unchanged.
C12_SkipMovesToEnd ==
    [][\A feature_id \in CallIds :
          (/\ get_by_id(features, feature_id).found
           /\ ~get_by_id(features, feature_id).feature.passes
           /\ Skip(feature_id))
             => LET i == get_by_id(features, feature_id).index + 1
                    n == Len(features)
                IN  /\ ret'.found
                    /\ Len(features') = n
                    /\ features'[n] = [features[i] EXCEPT !.in_progress = "false"]
                    /\ \A k \in 1..(i - 1) : features'[k] = features[k]
                    /\ \A k \in i..(n - 1) : features'[k] = features[k + 1]]_vars

\* C13: skip(id) returns not-found and leaves the persisted store unchanged
\* exactly when id does not resolve or the record get_by_id(id) returns
\* already passes; whenever that feature is non-passing, skip(id) succeeds.
C13_SkipFailsIffPassingOrUnresolved ==
    [][\A feature_id \in CallIds :
          Skip(feature_id)
             => LET r == get_by_id(features, feature_id)
                IN  /\ ~ret'.found <=> (~r.found \/ r.feature.passes)
                    /\ ~ret'.found => features' = features]_vars

\* C14: for every resolvable id, after mark_passing(id) a get_by_id(id) shows
\* passes=true; in_progress is false if the field existed on the record before
\* the call and is still absent if it did not; no other record and no other
\* field is changed and the store order is unchanged.  mark_passing is
\* idempotent: a second call changes nothing more.
C14_MarkPassingSetsPasses ==
    [][\A feature_id \in CallIds :
          (get_by_id(features, feature_id).found /\ MarkPassing(feature_id))
             => LET i == get_by_id(features, feature_id).index + 1
                    after == get_by_id(features', feature_id)
                IN  /\ ret'.found
                    /\ after.found
                    /\ after.index = i - 1
                    /\ after.feature.passes
                    /\ after.feature.in_progress
                          = IF features[i].in_progress = "absent" THEN "absent" ELSE "false"
                    /\ Len(features') = Len(features)
                    /\ \A k \in 1..Len(features) : k # i => features'[k] = features[k]
                    /\ [features'[i] EXCEPT !.passes = FALSE, !.in_progress = "x"]
                          = [features[i] EXCEPT !.passes = FALSE, !.in_progress = "x"]
                    /\ mark_passing(features', feature_id).found
                    /\ mark_passing(features', feature_id).features = features']_vars

\* mark_passing ran on a record a session had worked on: the record passes,
\* its in_progress went from true to false, its attempt_count and last_error
\* are as they were
C14_Witness ==
    /\ ret.op = "mark_passing"
    /\ ret.found
    /\ \E k \in 1..Len(features) :
          /\ features[k].passes
          /\ features[k].in_progress = "false"
          /\ features[k].attempt_count = MaxIterations
          /\ features[k].last_error = "E0"

\* C15: mark_in_progress(id) on a feature that already passes returns the
\* not-found signal and leaves the persisted store unchanged; on a resolvable
\* non-passing feature it sets in_progress=true on that record only and
\* changes nothing else.
C15_MarkInProgressUnlessPassing ==
    [][\A feature_id \in CallIds :
          (get_by_id(features, feature_id).found /\ MarkInProgress(feature_id))
             => LET i == get_by_id(features, feature_id).index + 1
                IN  IF features[i].passes
                    THEN ~ret'.found /\ features' = features
                    ELSE /\ ret'.found
                         /\ features' = [features EXCEPT ![i].in_progress = "true"]]_vars

\* mark_in_progress was refused on a passing feature that it addressed by an
\* explicit id differing from the record's position
C15_Witness ==
    /\ ret.op = "mark_in_progress"
    /\ ~ret.found
    /\ lookup.found
    /\ lookup.feature.passes
    /\ features[lookup.index + 1].has_id
    /\ lookup.index # lookup.feature_id.value
    /\ features[lookup.index + 1].in_progress # "true"

\* C16: for a resolvable id, increment_attempt(id, error) raises the
\* attempt_count of the feature the id resolves to by exactly 1 (from 0 when
\* the field is absent), overwrites last_error when an error is given (a
\* non-empty string) and leaves it unchanged otherwise, changes no other
\* record, and succeeds however large attempt_count already is, also on
\* passing features.
C16_IncrementAttemptAddsOne ==
    [][\A feature_id \in CallIds, error \in Errors :
          (get_by_id(features, feature_id).found /\ IncrementAttempt(feature_id, error))
             => LET i == get_by_id(features, feature_id).index + 1
                IN  /\ ret'.found
                    /\ features' =
                          [features EXCEPT
                              ![i].has_attempt_count = TRUE,
                              ![i].attempt_count = features[i].attempt_count + 1,
                              ![i].last_error = IF error \in {"None", ""}
                                                THEN features[i].last_error
                                                ELSE error]]_vars

\* C17: create_bulk with K items returns K, increases total by exactly K,
\* appends the new records after all existing records without changing any
\* existing record, and gives the new records strictly increasing ids (and
\* priorities), each greater than the id of every pre-existing feature (its
\* explicit id, else the position that stands for its id) and than every
\* pre-existing priority; every new record has passes=false,
\* in_progress=false, attempt_count=0.
C17_CreateBulkAppendsFresh ==
    [][\A n \in 0..MaxLen :
          CreateBulk(n)
             => LET old == Len(features)
                IN  /\ ret'.count = n
                    /\ Len(features') = old + n
                    /\ SubSeq(features', 1, old) = features
                    /\ \A j \in (old + 1)..(old + n) :
                          /\ features'[j].has_id
                          /\ features'[j].has_priority
                          /\ ~features'[j].passes
                          /\ features'[j].in_progress = "false"
                          /\ features'[j].has_attempt_count
                          /\ features'[j].attempt_count = 0
                          /\ j > old + 1 =>
                                /\ features'[j].id > features'[j - 1].id
                                /\ features'[j].priority > features'[j - 1].priority
                          /\ \A k \in 1..old :
                                /\ features'[j].id > get_feature_id(features[k], k - 1)
                                /\ features[k].has_priority =>
                                      features'[j].priority > features[k].priority]_vars

\* C18: explicit ids stay unique: starting from any store whose explicit ids
\* are pairwise distinct, after any sequence of create_bulk, mark_passing,
\* mark_in_progress, clear_in_progress, skip and increment_attempt calls (and
\* of the validation loop's calls, which use them) no two records carry the
\* same explicit id.
C18_ExplicitIdsStayUnique ==
    \A j, k \in 1..Len(features) :
        (j < k /\ features[j].has_id /\ features[k].has_id)
           => features[j].id # features[k].id

\* create_bulk added a record to a list whose largest explicit id was not
\* smaller than the length of the list
C18_Witness ==
    /\ ret.op = "create_bulk"
    /\ ret.count >= 1
    /\ Len(features) > ret.count
    /\ \E k \in 1..(Len(features) - ret.count) :
          /\ features[k].has_id
          /\ features[k].id > Len(features) - ret.count
          /\ features[Len(features)].id > features[k].id

\* what tells one record from another whatever its flags: the fields no
\* operation writes after the record was created
Identity(f) == <<f.has_id, f.id, f.has_priority, f.priority>>

Copies(fs, v) == Cardinality({k \in 1..Len(fs) : Identity(fs[k]) = v})

\* C19: no operation removes a feature: under any sequence of queue and
\* validation-loop operations total never decreases, every record present
\* before an operation is still present after it (possibly at another
\* position or with changed flags), and total grows only through create_bulk.
C19_NoFeatureRemoved ==
    [][/\ Len(features') >= Len(features)
       /\ \A k \in 1..Len(features) :
             Copies(features', Identity(features[k])) >= Copies(features, Identity(features[k]))
       /\ Len(features') > Len(features) => ret'.op = "create_bulk"]_vars

\* skip took a record with an id from the head of a list of several records
\* and the record is at the end of the list
C19_Witness ==
    /\ ret.op = "skip"
    /\ ret.found
    /\ Len(features) >= 2
    /\ lookup.found
    /\ lookup.index = 0
    /\ lookup.feature_id.value # 0
    /\ features[Len(features)].has_id
    /\ features[Len(features)].id = lookup.feature_id.value
    /\ features[Len(features)].in_progress = "false"

----------------------------------------------------------------------------
(* Properties of the persisted document *)

\* C21: when the persisted feature document is absent or unparsable, no
\* operation raises and every operation behaves as on the empty store:
\* get_stats reports total 0 and percentage 0.0, get_next and every
\* id-addressed operation return not-found without writing, is_complete is
\* false, and create_bulk of K items leaves a store holding exactly those K
\* records with ids 1..K.
C21_UnreadableStoreIsEmpty ==
    [][file # "list"
          => /\ ~ret'.raised
             /\ GetStats => /\ ret'.stats.total = 0
                            /\ ret'.stats.percentage = 0
                            /\ UNCHANGED <<features, file>>
             /\ (\/ GetNext
                 \/ \E feature_id \in CallIds :
                       \/ GetById(feature_id)
                       \/ MarkPassing(feature_id)
                       \/ MarkInProgress(feature_id)
                       \/ ClearInProgress(feature_id)
                       \/ Skip(feature_id)
                       \/ \E error \in Errors : IncrementAttempt(feature_id, error))
                   => /\ ~ret'.found
                      /\ UNCHANGED <<features, file>>
             /\ IsComplete => ~ret'.complete /\ UNCHANGED <<features, file>>
             /\ \A n \in 0..MaxLen :
                   CreateBulk(n)
                      => /\ file' = "list"
                         /\ Len(features') = n
                         /\ \A j \in 1..n : features'[j].has_id /\ features'[j].id = j]_vars

\* both calls have returned a record
BothSucceeded ==
    /\ procs.p1.pc = "done" /\ procs.p1.found
    /\ procs.p2.pc = "done" /\ procs.p2.found

PassesNow(feature_id) == get_by_id(features, feature_id).feature.passes

\* the two calls addressed different records, neither of them passing in the
\* list the other call loaded
DistinctPending ==
    /\ get_by_id(features, procs.p1.feature_id).index
          # get_by_id(features, procs.p2.feature_id).index
    /\ ~get_by_id(procs.p1.features, procs.p2.feature_id).feature.passes
    /\ ~get_by_id(procs.p2.features, procs.p1.feature_id).feature.passes

\* C22: every mutation is a load followed by a whole-document save with no
\* lock or version check.  When two processes run mark_passing(a) and
\* mark_passing(b) one after the other, both features pass at the end; when
\* the calls interleave (both load before either saves), both report success
\* and the final store holds only one of the two updates.
C22_OnlySerializedCallsKeepBothUpdates ==
    BothSucceeded
       => /\ ~procs.overlap
                => PassesNow(procs.p1.feature_id) /\ PassesNow(procs.p2.feature_id)
          /\ (procs.overlap /\ DistinctPending)
                => ~(PassesNow(procs.p1.feature_id) /\ PassesNow(procs.p2.feature_id))
          /\ PassesNow(procs.p1.feature_id) \/ PassesNow(procs.p2.feature_id)

\* a lost update: two interleaved mark_passing calls on different pending
\* features both returned the record, and only the second feature passes
C22_Witness ==
    /\ BothSucceeded
    /\ procs.overlap
    /\ DistinctPending
    /\ ~PassesNow(procs.p1.feature_id)
    /\ PassesNow(procs.p2.feature_id)

PassingAt(fs) == {p \in Positions(fs) : fs[p + 1].passes}

\* C23: for any store and any limit in 1..10, get_for_regression(limit)
\* returns min(limit, passing_count) pairwise distinct records, each of which
\* currently has passes=true; it returns the empty list when no feature
\* passes; and it never modifies the store.
C23_RegressionSampleOfPassing ==
    [][\A limit \in Limits :
          (ret'.limit = limit /\ GetForRegression(limit))
             => LET passing_count == Cardinality(PassingAt(features))
                IN  /\ Len(ret'.sample)
                          = IF limit <= passing_count THEN limit ELSE passing_count
                    /\ \A i \in 1..Len(ret'.sample) : ret'.sample[i] \in PassingAt(features)
                    /\ \A i, j \in 1..Len(ret'.sample) :
                          i # j => ret'.sample[i] # ret'.sample[j]
                    /\ passing_count = 0 => ret'.sample = <<>>
                    /\ UNCHANGED <<features, file>>]_vars

\* get_for_regression returned fewer records than pass, as the limit asked,
\* and not in store order
C23_Witness ==
    /\ ret.op = "get_for_regression"
    /\ Len(ret.sample) = ret.limit
    /\ ret.limit >= 2
    /\ Cardinality(PassingAt(features)) > ret.limit
    /\ ret.sample[1] > ret.sample[2]

\* C24: for any store, get_stats() returns total = number of records,
\* passing = number of records with passes=true, in_progress = number of
\* records with in_progress=true, and percentage = 100*passing/total rounded
\* to one decimal (0.0 when total is 0); hence 0 <= passing <= total, and the
\* call does not modify the store.  (percentage is in tenths of a percent:
\* it is a nearest tenth when its distance to 1000*passing/total is at most
\* one half.)
C24_StatsCountAndRound ==
    [][GetStats
          => LET st == ret'.stats
                 total == Len(features)
                 passing == Cardinality(PassingAt(features))
                 exact == 1000 * passing
             IN  /\ st.total = total
                 /\ st.passing = passing
                 /\ st.in_progress
                       = Cardinality({k \in 1..total : features[k].in_progress = "true"})
                 /\ total = 0 => st.percentage = 0
                 /\ total > 0 =>
                       /\ 2 * (st.percentage * total - exact) <= total
                       /\ 2 * (exact - st.percentage * total) <= total
                 /\ 0 <= st.passing /\ st.passing <= st.total
                 /\ 0 <= st.percentage /\ st.percentage <= 1000
                 /\ UNCHANGED <<features, file>>]_vars

\* get_stats ran on a list whose percentage lies halfway between two tenths
\* (1 of 16 passing: 6.25) and that has records in progress
C24_Witness ==
    /\ ret.op = "get_stats"
    /\ ret.stats.total > 0
    /\ ret.stats.passing > 0
    /\ 2 * ((1000 * ret.stats.passing) % ret.stats.total) = ret.stats.total
    /\ ret.stats.in_progress > 0
    /\ ret.stats.percentage % 2 = 0

\* C25: for a resolvable id, clear_in_progress(id) leaves the addressed record
\* with in_progress=false whether the field was true, false or absent before,
\* succeeds also on passing features, and changes no other field, no other
\* record and no position.
C25_ClearInProgressSetsFalse ==
    [][\A feature_id \in CallIds :
          (get_by_id(features, feature_id).found /\ ClearInProgress(feature_id))
             => LET i == get_by_id(features, feature_id).index + 1
                IN  /\ ret'.found
                    /\ get_by_id(features', feature_id).index = i - 1
                    /\ get_by_id(features', feature_id).feature.in_progress = "false"
                    /\ features' = [features EXCEPT ![i].in_progress = "false"]]_vars

\* clear_in_progress created the field on a passing record that had none, in
\* a list where another record is in progress and stays so
C25_Witness ==
    /\ ret.op = "clear_in_progress"
    /\ ret.found
    /\ lookup.found
    /\ lookup.feature.passes
    /\ lookup.feature.in_progress = "absent"
    /\ features[lookup.index + 1].in_progress = "false"
    /\ \E k \in 1..Len(features) : features[k].in_progress = "true"

----------------------------------------------------------------------------
(* Properties of the progress file and of the learnings *)

SessionNumbers(t) == {t._sessions[k].number : k \in 1..Len(t._sessions)}

\* the lists of completed feature names of the sessions numbered n
CompletedNames(t, n) ==
    {[j \in 1..Len(t._sessions[k].features) |-> t._sessions[k].features[j].name] :
        k \in {i \in 1..Len(t._sessions) : t._sessions[i].number = n}}

\* C26: a ProgressTracker constructed over a project directory after another
\* tracker wrote it sees the same patterns, the same set of session numbers
\* and, for each session number, the same list of completed feature names; a
\* start_session after such a reload gets a session number different from
\* every existing one (count + 1).
C26_ReloadSeesSameProgress ==
    [][/\ (progress_file.exists /\ Construct)
             => /\ tracker'._patterns = tracker._patterns
                /\ SessionNumbers(tracker') = SessionNumbers(tracker)
                /\ \A n \in SessionNumbers(tracker) :
                      CompletedNames(tracker', n) = CompletedNames(tracker, n)
       /\ (tracker._current_session = 0 /\ StartSession)
             => /\ tracker'._sessions[Len(tracker'._sessions)].number
                      = Len(tracker._sessions) + 1
                /\ tracker'._sessions[Len(tracker'._sessions)].number
                      \notin SessionNumbers(tracker)]_vars

\* C27: KnowledgeManager.refresh() reloads state from the files: after
\* refresh the in-memory progress state equals what a freshly constructed
\* manager would load, so with unchanged files get_stats() (total_sessions,
\* features_completed) and the pattern list are the same before and after
\* any number of refresh calls.
C27_RefreshKeepsProgress ==
    [][Refresh
          => /\ tracker'._patterns = load(NewTracker, progress_file)._patterns
             /\ tracker'._sessions = load(NewTracker, progress_file)._sessions
             /\ progress_get_stats(tracker').total_sessions
                   = progress_get_stats(tracker).total_sessions
             /\ progress_get_stats(tracker').features_completed
                   = progress_get_stats(tracker).features_completed
             /\ tracker'._patterns = tracker._patterns]_vars

\* the texts the calls of one kind were made with so far
Keys(op) == {history[k].key : k \in {i \in 1..Len(history) : history[i].op = op}}

\* the calls of one kind made with one text, in order
CallsWith(op, key) ==
    {k \in 1..Len(history) : history[k].op = op /\ history[k].key = key}

\* the context, reason or fix of the first call made with a text
FirstValue(op, key) == history[Min(CallsWith(op, key))].value

\* C28: add_pattern and add_gotcha are idempotent per key: adding a pattern
\* text (or gotcha warning) that is already stored leaves the persisted
\* learnings unchanged and keeps the original context/reason, so after any
\* sequence of calls the number of stored patterns (gotchas) equals the
\* number of distinct texts added.
C28_AddPatternAndGotchaOncePerText ==
    /\ [](LET learnings == load_learnings(profile)
          IN  /\ Len(learnings.patterns) = Cardinality(Keys("add_pattern"))
              /\ Len(learnings.gotchas) = Cardinality(Keys("add_gotcha"))
              /\ \A k \in 1..Len(learnings.patterns) :
                    /\ learnings.patterns[k].pattern \in Keys("add_pattern")
                    /\ learnings.patterns[k].context
                          = FirstValue("add_pattern", learnings.patterns[k].pattern)
              /\ \A k \in 1..Len(learnings.gotchas) :
                    /\ learnings.gotchas[k].warning \in Keys("add_gotcha")
                    /\ learnings.gotchas[k].reason
                          = FirstValue("add_gotcha", learnings.gotchas[k].warning))
    /\ [][/\ \A pattern \in FeatureNames, context \in ContextTexts :
                (pattern \in Keys("add_pattern") /\ AddPattern(pattern, context))
                   => profile' = profile
          /\ \A warning \in FeatureNames, reason \in ContextTexts :
                (warning \in Keys("add_gotcha") /\ AddGotcha(warning, reason))
                   => profile' = profile]_vars

\* a pattern and a gotcha were each added twice, the second time with another
\* context or reason; one entry of each is stored, with the first
C28_Witness ==
    /\ Len(history) = 4
    /\ history[1].op = "add_pattern" /\ history[2].op = "add_pattern"
    /\ history[1].key = history[2].key /\ history[1].value # history[2].value
    /\ history[3].op = "add_gotcha" /\ history[4].op = "add_gotcha"
    /\ history[3].key = history[4].key /\ history[3].value # history[4].value
    /\ Len(load_learnings(profile).patterns) = 1
    /\ load_learnings(profile).patterns[1].context = history[1].value
    /\ Len(load_learnings(profile).gotchas) = 1
    /\ load_learnings(profile).gotchas[1].reason = history[3].value

\* C29: after any sequence of add_common_error calls starting from empty
\* learnings there is exactly one stored entry per distinct error text, and
\* its frequency equals the number of calls made with that text (the fix of
\* the first call is kept).
C29_CommonErrorCountsCalls ==
    LET errors == load_learnings(profile).common_errors
    IN  /\ \A error \in Keys("add_common_error") :
              Cardinality({k \in 1..Len(errors) : errors[k].error = error}) = 1
        /\ \A k \in 1..Len(errors) :
              /\ errors[k].error \in Keys("add_common_error")
              /\ errors[k].frequency
                    = Cardinality(CallsWith("add_common_error", errors[k].error))
              /\ errors[k].fix = FirstValue("add_common_error", errors[k].error)

\* one error reported three times with two different fixes, another once
C29_Witness ==
    LET errors == load_learnings(profile).common_errors
    IN  /\ Len(history) = 4
        /\ \A k \in 1..4 : history[k].op = "add_common_error"
        /\ history[1].key = history[2].key /\ history[1].value # history[2].value
        /\ history[3].key # history[1].key
        /\ history[4].key = history[1].key
        /\ Len(errors) = 2
        /\ errors[1].frequency = 3
        /\ errors[1].fix = history[1].value
        /\ errors[2].frequency = 1

----------------------------------------------------------------------------
(* Properties of the validation loop at the attempt cap *)

\* C30: a success marker takes precedence over the cap, and cap exhaustion
\* is otherwise a blocked terminal: when continue_validation is called with
\* the current feature's attempt_count >= cap, the feature becomes passing
\* iff the first promise token contains FEATURE_{id}_VALIDATED; in every
\* other case its passes value is unchanged and its in_progress is set to
\* false; in both cases the loop state is cleared.
C30_SuccessMarkerBeatsCap ==
    [][(/\ Active
        /\ Current(features).found
        /\ Current(features).feature.attempt_count >= MaxIterations)
          => \A output \in Outputs :
                ContinueValidation(output)
                   => LET before == Current(features).feature
                          after == get_by_id(features', X).feature
                          success == HasMarker(output)
                                     /\ Contains(FirstToken(output),
                                                 ValidatedToken(before.id))
                      IN  /\ IF success THEN after.passes
                             ELSE /\ after.passes = before.passes
                                  /\ after.in_progress = "false"
                          /\ state' = ClearedState]_vars

----------------------------------------------------------------------------
(* Properties of the addressing of records *)

\* fs without its element at position i (1-based)
Without(fs, i) == SubSeq(fs, 1, i - 1) \o SubSeq(fs, i + 1, Len(fs))

\* the step changed at most the record at position i, in place
OnlyAt(i) ==
    /\ Len(features') = Len(features)
    /\ \A k \in 1..Len(features) : k # i => features'[k] = features[k]

\* C31: every id-addressed mutation acts on the record that get_by_id
\* resolves: for every store (including stores that mix records with and
\* without explicit ids) and every id, mark_passing, mark_in_progress,
\* clear_in_progress, skip and increment_attempt each modify exactly the
\* record that get_by_id(id) returns, and return not-found exactly when
\* get_by_id(id) does (or, for mark_in_progress and skip, when that record
\* passes).
C31_MutationsActOnResolvedRecord ==
    [][\A feature_id \in CallIds :
          LET r == get_by_id(features, feature_id)
              i == r.index + 1
          IN  /\ MarkPassing(feature_id)
                    => /\ ret'.found <=> r.found
                       /\ IF ret'.found THEN OnlyAt(i) ELSE features' = features
              /\ MarkInProgress(feature_id)
                    => /\ ret'.found <=> (r.found /\ ~r.feature.passes)
                       /\ IF ret'.found THEN OnlyAt(i) ELSE features' = features
              /\ ClearInProgress(feature_id)
                    => /\ ret'.found <=> r.found
                       /\ IF ret'.found THEN OnlyAt(i) ELSE features' = features
              /\ Skip(feature_id)
                    => /\ ret'.found <=> (r.found /\ ~r.feature.passes)
                       /\ IF ret'.found
                          THEN /\ Len(features') = Len(features)
                               /\ Without(features', Len(features')) = Without(features, i)
                          ELSE features' = features
              /\ \A error \in Errors :
                    IncrementAttempt(feature_id, error)
                       => /\ ret'.found <=> r.found
                          /\ IF ret'.found THEN OnlyAt(i) ELSE features' = features]_vars

PassingCount(fs) == Cardinality({k \in 1..Len(fs) : fs[k].passes})

\* C32: the queue can always be worked to completion through its own
\* addressing: from any store with n >= 1 non-passing features, repeating
\* 'f := get_next(); mark_passing(f.id)' raises the passing count by exactly 1
\* per round and reaches a store where is_complete() is true (and get_next()
\* returns not-found) after exactly n rounds; in particular the id returned
\* by get_next always resolves, through get_by_id and mark_passing, to the
\* very record get_next returned.
C32_QueueWorkedToCompletion ==
    [][/\ WorkMark
             => /\ get_by_id(features, ret.feature.id).found
                /\ get_by_id(features, ret.feature.id).index = ret.index
                /\ ret'.found
                /\ features'[ret.index + 1].passes
                /\ OnlyAt(ret.index + 1)
                /\ PassingCount(features') = PassingCount(features) + 1
       /\ WorkNext
             => /\ ret'.found <=> PassingCount(features) < Len(features)
                /\ (~ret'.found /\ features # <<>>) => is_complete(features)]_vars

\* the call with argument feature_id is addressed to another record than the
\* one at position i (0-based): neither get_by_id nor the search of skip and
\* increment_attempt leads it there
AddressedElsewhere(feature_id, i) ==
    /\ get_by_id(features, feature_id).index # i
    /\ target_index(features, feature_id) # i

\* C33: while a validation session is active on id X, X keeps resolving to
\* the record that start_validation marked in progress under any
\* interleaving of queue operations addressed to other features (skip,
\* create_bulk, mark_passing, mark_in_progress, clear_in_progress,
\* increment_attempt), so the terminal outcome of continue_validation is
\* always applied to that same record.
C33_SessionIdKeepsItsRecord ==
    [][(Active /\ Current(features).found)
          => LET i == Current(features).index
             IN  /\ \A feature_id \in CallIds :
                       AddressedElsewhere(feature_id, i)
                          => /\ (\/ MarkPassing(feature_id)
                                 \/ MarkInProgress(feature_id)
                                 \/ ClearInProgress(feature_id)
                                 \/ \E error \in Errors : IncrementAttempt(feature_id, error))
                                   => /\ Current(features').found
                                      /\ Current(features').index = i
                             /\ Skip(feature_id)
                                   => /\ Current(features').found
                                      /\ Current(features').index
                                            = IF ret'.found
                                                 /\ target_index(features, feature_id) < i
                                              THEN i - 1 ELSE i
                 /\ \A n \in 0..MaxLen :
                       CreateBulk(n)
                          => /\ Current(features').found
                             /\ Current(features').index = i]_vars

----------------------------------------------------------------------------
(* Properties of the flags over runs of calls *)

InProgressCount(fs) == Cardinality({k \in 1..Len(fs) : fs[k].in_progress = "true"})

\* C34: the singleton loop pointer keeps in_progress consistent: starting
\* from an Idle loop and a store with no feature in progress, and using only
\* start_validation and continue_validation, at most one feature has
\* in_progress=true in any reachable state, and whenever the loop state is
\* Idle (current_feature none) no feature has in_progress=true.
C34_OneFeatureInProgress ==
    /\ InProgressCount(features) <= 1
    /\ state.current_feature.is_none => InProgressCount(features) = 0

\* C35: the attempt number shown to the agent never exceeds the cap: for a
\* session started on a feature with attempt_count < max_iterations, every
\* prompt returned by start_validation or by a non-terminal
\* continue_validation displays an attempt number (attempt_count + 1) that is
\* <= max_iterations, so the agent is prompted at most max_iterations times
\* for a feature that starts at attempt_count 0.
C35_AttemptShownWithinCap ==
    (/\ ret.op \in {"start_validation", "continue_validation"}
     /\ ret.prompt.some
     /\ session.a < MaxIterations)
       => ret.prompt.attempt <= ret.prompt.max_iterations

\* where the record at position p stands after a call: skip pops the record
\* at position t and appends it, every other call keeps the positions
\* (t = -1)
After(t, p) ==
    IF t < 0 \/ p < t THEN p
    ELSE IF p = t THEN Len(features) - 1
    ELSE p - 1

Stays(t) ==
    /\ \A p \in PassingAt(features) :
          /\ After(t, p) \in PassingAt(features')
          /\ Identity(features'[After(t, p) + 1]) = Identity(features[p + 1])
    /\ \A p, q \in PassingAt(features) : p < q => After(t, p) < After(t, q)
    /\ PassingCount(features') >= PassingCount(features)

\* C36: passes is a terminal flag: under any sequence of serialized queue
\* and validation-loop operations (create_bulk, mark_*, clear_in_progress,
\* skip, increment_attempt, start_validation, continue_validation), a
\* feature that has passes=true keeps passes=true forever, the passing count
\* never decreases, and passing features keep their relative order.
C36_PassesIsTerminal ==
    [][/\ \A feature_id \in CallIds :
             Skip(feature_id) =>
                 Stays(IF ret'.found THEN target_index(features, feature_id) ELSE 0 - 1)
       /\ ret'.op # "skip" => Stays(0 - 1)]_vars

\* skip moved a pending record behind two passing ones
C36_Witness ==
    /\ ret.op = "skip"
    /\ ret.found
    /\ PassingCount(features) >= 2

\* C37: no feature is both passing and in progress: starting from a store
\* in which no record has passes=true together with in_progress=true, after
\* any sequence of serialized queue and validation-loop operations no record
\* has both flags true (so passing + in_progress <= total in get_stats).
C37_NeverPassingAndInProgress ==
    /\ \A k \in 1..Len(features) :
          ~(features[k].passes /\ features[k].in_progress = "true")
    /\ get_stats(features).passing + get_stats(features).in_progress
           <= get_stats(features).total

\* mark_passing reached a record a session had in progress
C37_Witness ==
    /\ ret.op = "mark_passing"
    /\ ret.found
    /\ \E k \in 1..Len(features) :
          /\ features[k].passes
          /\ features[k].last_error = "E0"
          /\ features[k].in_progress = "false"

----------------------------------------------------------------------------
(* Properties of attempt_count *)

InProgressAt(fs) == {p \in Positions(fs) : fs[p + 1].in_progress = "true"}

\* no call lowers the attempt_count of a record
NeverLowered(t) ==
    \A p \in Positions(features) :
        /\ After(t, p) \in Positions(features')
        /\ features'[After(t, p) + 1].attempt_count >= features[p + 1].attempt_count

\* start_validation and a continue_validation that returns done=true leave
\* every attempt_count as it is
LeftUnchanged ==
    (\/ ret'.op = "start_validation"
     \/ ret'.op = "continue_validation" /\ ret'.done)
       => /\ Len(features') = Len(features)
          /\ \A k \in 1..Len(features) :
                features'[k].attempt_count = features[k].attempt_count

\* no record is in progress before start_validation, and start_validation
\* and mark_in_progress alone set the flag: unless the call before was
\* mark_in_progress, the one record in progress is the one start_validation
\* marked. With its attempt_count at the cap the next continue_validation
\* ends the session, and the record becomes passing only with the success
\* marker
EndsAtCap ==
    (/\ Active
     /\ ret.op # "mark_in_progress"
     /\ Cardinality(InProgressAt(features)) = 1
     /\ \A p \in InProgressAt(features) :
           features[p + 1].attempt_count >= MaxIterations)
       => \A output \in Outputs :
             ContinueValidation(output)
                => /\ ret'.done
                   /\ \A p \in InProgressAt(features) :
                         (features'[p + 1].passes /\ ~features[p + 1].passes)
                            => /\ HasMarker(output)
                               /\ Contains(FirstToken(output),
                                           ValidatedToken(Current(features).feature.id))

\* C38: attempt_count is never reset: under any sequence of operations each
\* feature's attempt_count is non-decreasing, start_validation and every
\* terminal outcome leave it unchanged, and therefore a session started on a
\* feature whose attempt_count is already >= cap ends on its first
\* continue_validation call (done=true), becoming passing only if that
\* output carries the success marker.
C38_AttemptCountNeverReset ==
    [][/\ \A feature_id \in CallIds :
             Skip(feature_id) =>
                 NeverLowered(IF ret'.found THEN target_index(features, feature_id)
                              ELSE 0 - 1)
       /\ ret'.op # "skip" => NeverLowered(0 - 1)
       /\ LeftUnchanged
       /\ EndsAtCap]_vars

----------------------------------------------------------------------------
(* Properties of the order of the rendered sessions *)

\* the session numbers of the progress file, in the order of the file
FileSessionNumbers ==
    LET sessions == load(NewTracker, progress_file)._sessions
    IN  [k \in 1..Len(sessions) |-> sessions[k].number]

\* C39: the rendered session history lists sessions most recent first:
\* after any sequence of start_session calls, saves and reloads (new
\* ProgressTracker over the same directory), the sessions in the progress
\* file appear in strictly descending session number.
C39_SessionsMostRecentFirst ==
    progress_file.exists
       => \A j, k \in 1..Len(FileSessionNumbers) :
             j < k => FileSessionNumbers[j] > FileSessionNumbers[k]

====
